---------------------------- MODULE Spec2Model ----------------------------
(***************************************************************************)
(* A model of the MT5 connector (services/mt5-connector/src):              *)
(*   - the numeric helpers of MT5Client (_normalize_volume,                *)
(*     _adjust_stop_loss_take_profit, _get_filling_modes),                 *)
(*   - the connection manager (initialize, ensure_initialized, shutdown),  *)
(*   - the trading operations (open, modify, partial close, close),        *)
(*   - the order-submission loop of open_trade.                            *)
(*                                                                         *)
(* Units.  Prices are integers (multiples of the smallest price step the   *)
(* model distinguishes); volumes are integers in units of 0.01 lot, so the *)
(* code's defaults 0.01 / 100.0 / 0.01 are 1 / 10000 / 1.  A requested     *)
(* volume is a rational n/d (partial close computes volume * percent /     *)
(* 100).  Arithmetic is exact: the binary rounding of Python floats is not *)
(* modelled.  An Optional[float] is <<>> (None) or <<v>>.                  *)
(***************************************************************************)
EXTENDS Integers, Sequences, FiniteSets, TLC

VARIABLES
    initialized,   \* MT5Client._initialized
    connected,     \* MT5Client._connected
    config,        \* MT5Config: whether credentials and a terminal path are set
    last,          \* the operation that ran last: its inputs, native calls, result
    helper,        \* the helper call that ran last: its inputs and what it returned
    phase,         \* lifespan of the service: "starting", "serving", "stopped"
    now,           \* the host's local clock, datetime.now(), in seconds
    utc_offset,    \* datetime.utcnow() - datetime.now() on this host, in seconds
    tick_buffers,  \* OrderFlowAccumulator.tick_buffers: symbol -> ticks, oldest first
    emissions,     \* the emission tasks created and not yet collected
    callers,       \* the calls of ensure_initialized under way: where each stands
    session        \* whether the terminal session is open

flowVars == <<now, utc_offset, tick_buffers>>
emitVars == <<emissions>>
callVars == <<callers, session>>
vars == <<initialized, connected, config, last, helper, phase, flowVars, emitVars, callVars>>

None == <<>>
Some(v) == <<v>>
IsNone(x) == x = <<>>
Val(x) == x[1]

(***************************************************************************)
(* Bounds of the model.                                                    *)
(***************************************************************************)
MaxRequested == 12      \* numerators of requested volumes: 0..MaxRequested
MaxVolMin == 3          \* broker volume_min: 0..MaxVolMin
MaxVolMax == 7          \* broker volume_max: 0..MaxVolMax
MaxVolStep == 3         \* broker volume_step: 0..MaxVolStep
MaxPrice == 9           \* prices: 0..MaxPrice
MaxStopsLevel == 3      \* broker trade_stops_level: 0..MaxStopsLevel

(***************************************************************************)
(* Program constants.                                                      *)
(***************************************************************************)
DefaultVolumeMin == 1          \* 0.01 lot
DefaultVolumeMax == 10000      \* 100.0 lots
DefaultVolumeStep == 1         \* 0.01 lot
ORDER_FILLING_RETURN == 1
ORDER_FILLING_IOC == 2
ORDER_FILLING_FOK == 4
TRADE_RETCODE_DONE == 10009
TRADE_RETCODE_INVALID_STOPS == 10016
TRADE_RETCODE_INVALID_VOLUME == 10014
TRADE_RETCODE_INVALID_FILL == 10030
TRADE_RETCODE_AUTOTRADING_DISABLED == 10027

(***************************************************************************)
(* _normalize_volume                                                       *)
(***************************************************************************)
\* x if x else default: a missing or zero broker value takes the default.
OrDefault(x, dflt) == IF x # 0 THEN x ELSE dflt

\* Python's round() of the exact quotient n/d (d > 0, n >= 0): to the nearest
\* integer, a tie to the even one.
RoundHalfEven(n, d) ==
    LET q == n \div d
        r == n % d
    IN  IF 2 * r < d THEN q
        ELSE IF 2 * r > d THEN q + 1
        ELSE IF q % 2 = 0 THEN q ELSE q + 1

\* _normalize_volume(requested = n/d, symbol_info, symbol): (volume, error).
NormalizeVolume(n, d, info) ==
    LET min_vol == OrDefault(info.volume_min, DefaultVolumeMin)
        max_vol == OrDefault(info.volume_max, DefaultVolumeMax)
        step == OrDefault(info.volume_step, DefaultVolumeStep)
        clamped == n > max_vol * d
        steps == IF clamped THEN RoundHalfEven(max_vol, step)
                 ELSE RoundHalfEven(n, d * step)
        vol == steps * step
    IN  IF n < min_vol * d
          THEN [vol |-> 0, err |-> "below_min"]
        ELSE IF clamped /\ 10 * n > 11 * max_vol * d
          THEN [vol |-> 0, err |-> "above_max"]
        ELSE IF vol < min_vol
          THEN [vol |-> 0, err |-> "rounded_below_min"]
        ELSE [vol |-> vol, err |-> "none"]

(***************************************************************************)
(* _adjust_stop_loss_take_profit                                           *)
(***************************************************************************)
MinStopDistance(info) == OrDefault(info.trade_stops_level, 0) * info.point

\* AdjustBelow without the side check: a stop at or above entry is moved below.
AdjustBelow_NoSideCheck(entry, requested, dist) ==
    IF IsNone(requested) \/ ~(Val(requested) > 0) THEN None
    ELSE IF Val(requested) > entry - dist THEN Some(entry - dist)
    ELSE requested

\* AdjustAbove that leaves a stop nearer than the minimum distance where it is.
AdjustAbove_NoPush(entry, requested, dist) ==
    IF IsNone(requested) \/ ~(Val(requested) > 0) THEN None
    ELSE IF Val(requested) <= entry THEN None
    ELSE requested

\* One requested stop that must lie below entry (a buy's stop-loss, a sell's
\* take-profit).
AdjustBelow(entry, requested, dist) ==
    IF IsNone(requested) \/ ~(Val(requested) > 0) THEN None
    ELSE IF Val(requested) >= entry THEN None
    ELSE IF Val(requested) > entry - dist THEN Some(entry - dist)
    ELSE requested

\* One requested stop that must lie above entry (a sell's stop-loss, a buy's
\* take-profit).
AdjustAbove(entry, requested, dist) ==
    IF IsNone(requested) \/ ~(Val(requested) > 0) THEN None
    ELSE IF Val(requested) <= entry THEN None
    ELSE IF Val(requested) < entry + dist THEN Some(entry + dist)
    ELSE requested

AdjustStops(info, entry, requested_sl, requested_tp, direction) ==
    LET dist == MinStopDistance(info)
    IN  IF direction = "buy"
          THEN [sl |-> AdjustBelow(entry, requested_sl, dist),
                tp |-> AdjustAbove(entry, requested_tp, dist)]
          ELSE [sl |-> AdjustAbove(entry, requested_sl, dist),
                tp |-> AdjustBelow(entry, requested_tp, dist)]

(***************************************************************************)
(* _get_filling_modes                                                      *)
(***************************************************************************)
\* filling_modes & bit, on the three low bits of the broker's bitmask.
HasBit(mask, bit) == (mask \div bit) % 2 = 1

AllFillingModes == <<ORDER_FILLING_RETURN, ORDER_FILLING_IOC, ORDER_FILLING_FOK>>

\* _get_filling_modes without the fallback to all modes: the advertised
\* modes, possibly none.
GetFillingModes_NoFallback(symbol_info) ==
    IF IsNone(symbol_info) THEN AllFillingModes
    ELSE LET mask == Val(symbol_info).filling_mode
         IN  (IF HasBit(mask, ORDER_FILLING_RETURN) THEN <<ORDER_FILLING_RETURN>> ELSE <<>>)
             \o (IF HasBit(mask, ORDER_FILLING_IOC) THEN <<ORDER_FILLING_IOC>> ELSE <<>>)
             \o (IF HasBit(mask, ORDER_FILLING_FOK) THEN <<ORDER_FILLING_FOK>> ELSE <<>>)

\* symbol_info is None (<<>>) or <<info>>.
GetFillingModes(symbol_info) ==
    IF IsNone(symbol_info) THEN AllFillingModes
    ELSE LET mask == Val(symbol_info).filling_mode
             modes == (IF HasBit(mask, ORDER_FILLING_RETURN)
                         THEN <<ORDER_FILLING_RETURN>> ELSE <<>>)
                      \o (IF HasBit(mask, ORDER_FILLING_IOC)
                            THEN <<ORDER_FILLING_IOC>> ELSE <<>>)
                      \o (IF HasBit(mask, ORDER_FILLING_FOK)
                            THEN <<ORDER_FILLING_FOK>> ELSE <<>>)
         IN  IF modes = <<>> THEN AllFillingModes ELSE modes

(***************************************************************************)
(* validate_symbol                                                         *)
(***************************************************************************)
SymbolAliases(symbol) ==
    CASE symbol = "XAUUSD" -> <<"GOLD", "XAUUSD", "XAU/USD">>
      [] symbol = "XAGUSD" -> <<"SILVER", "XAGUSD", "XAG/USD">>
      [] symbol = "BTCUSD" -> <<"BTCUSD", "BTC/USD">>
      [] symbol = "US30" -> <<"US30", "US30Cash", "DOW", "DJI">>
      [] symbol = "SPX500" -> <<"SPX500", "SP500", "US500">>
      [] symbol = "NAS100" -> <<"NAS100", "NASDAQ", "US100">>
      [] OTHER -> <<>>

CommonSuffixes == <<".0", ".1", ".conv", ".raw", ".pro">>

\* str.upper(), on the tickers of the model.
Upper(symbol) ==
    CASE symbol = "xauusd" -> "XAUUSD"
      [] symbol = "eurusd" -> "EURUSD"
      [] OTHER -> symbol

\* The terminal's symbol table: a name is absent, visible, hidden (symbol_select
\* enables it) or locked (hidden, and symbol_select fails).
StatusOf(tbl, name) == IF name \in DOMAIN tbl THEN tbl[name] ELSE "absent"

\* One of the two loops over candidates: the first that exists and is visible
\* or can be enabled.
RECURSIVE TryCandidates(_, _, _, _)
TryCandidates(cands, i, tbl, calls) ==
    IF i > Len(cands) THEN [found |-> FALSE, name |-> "", calls |-> calls]
    ELSE LET st == StatusOf(tbl, cands[i])
             c1 == Append(calls, "symbol_info")
             c2 == Append(c1, "symbol_select")
         IN  IF st = "absent" THEN TryCandidates(cands, i + 1, tbl, c1)
             ELSE IF st = "visible" THEN [found |-> TRUE, name |-> cands[i], calls |-> c1]
             ELSE IF st = "hidden" THEN [found |-> TRUE, name |-> cands[i], calls |-> c2]
             ELSE TryCandidates(cands, i + 1, tbl, c2)

\* validate_symbol with the suffix variants tried before the name and its
\* aliases.
ValidateSymbol_SuffixesFirst(symbol, tbl) ==
    LET r2 == TryCandidates([k \in 1..Len(CommonSuffixes) |-> Upper(symbol) \o CommonSuffixes[k]],
                            1, tbl, <<>>)
        r1 == TryCandidates(<<Upper(symbol)>> \o SymbolAliases(Upper(symbol)), 1, tbl, r2.calls)
    IN  IF r2.found
          THEN [valid |-> TRUE, actual |-> r2.name, msg |-> "mapped", calls |-> r2.calls]
        ELSE IF r1.found
          THEN [valid |-> TRUE, actual |-> r1.name, msg |-> "valid", calls |-> r1.calls]
        ELSE [valid |-> FALSE, actual |-> symbol, msg |-> "not_found",
              calls |-> Append(r1.calls, "account_info")]

ValidateSymbol(symbol, tbl) ==
    LET r1 == TryCandidates(<<Upper(symbol)>> \o SymbolAliases(Upper(symbol)), 1, tbl, <<>>)
        r2 == TryCandidates([k \in 1..Len(CommonSuffixes) |-> Upper(symbol) \o CommonSuffixes[k]],
                            1, tbl, r1.calls)
    IN  IF r1.found
          THEN [valid |-> TRUE, actual |-> r1.name, msg |-> "valid", calls |-> r1.calls]
        ELSE IF r2.found
          THEN [valid |-> TRUE, actual |-> r2.name, msg |-> "mapped", calls |-> r2.calls]
        ELSE [valid |-> FALSE, actual |-> symbol, msg |-> "not_found",
              calls |-> Append(r2.calls, "account_info")]

\* A native call of validate_symbol raised.
ValidateRaised(symbol) ==
    [valid |-> FALSE, actual |-> symbol, msg |-> "error", calls |-> <<"symbol_info">>]

SymbolTables ==
    [{"XAUUSD", "GOLD", "XAUUSD.0"} -> {"absent", "visible", "hidden", "locked"}]

ValidateOutcomes(symbol) ==
    {ValidateSymbol(symbol, tbl) : tbl \in SymbolTables} \cup {ValidateRaised(symbol)}

(***************************************************************************)
(* The helpers, called on inputs drawn from the bounded sets.              *)
(***************************************************************************)
VolumeInfos ==
    [volume_min : 0..MaxVolMin, volume_max : 0..MaxVolMax, volume_step : 0..MaxVolStep]

StopInfos == [point : {1, 2}, trade_stops_level : 0..MaxStopsLevel]

OptPrices == {None} \cup {Some(p) : p \in 0..MaxPrice}

Directions == {"buy", "sell"}

NoHelper == [fn |-> "none"]

CallNormalizeVolume ==
    /\ helper = NoHelper
    /\ \E n \in 0..MaxRequested, d \in {1, 4}, info \in VolumeInfos :
        /\ helper' = [fn |-> "normalize_volume", n |-> n, d |-> d, info |-> info,
                      ret |-> NormalizeVolume(n, d, info)]
        /\ UNCHANGED <<initialized, connected, config, last, phase, flowVars, emitVars, callVars>>

CallAdjustStops ==
    /\ helper = NoHelper
    /\ \E info \in StopInfos, entry \in 1..MaxPrice, sl \in OptPrices, tp \in OptPrices,
          dir \in Directions :
        helper' = [fn |-> "adjust_stops", info |-> info, entry |-> entry,
                   sl |-> sl, tp |-> tp, direction |-> dir,
                   ret |-> AdjustStops(info, entry, sl, tp, dir)]
    /\ UNCHANGED <<initialized, connected, config, last, phase, flowVars, emitVars, callVars>>

\* The broker's bitmask: the three recognised bits and one more.
MaxFillingMask == 8
FillingInfos == {None} \cup {Some([filling_mode |-> m]) : m \in 0..MaxFillingMask}

CallGetFillingModes ==
    /\ helper = NoHelper
    /\ \E symbol_info \in FillingInfos :
        helper' = [fn |-> "get_filling_modes", symbol_info |-> symbol_info,
                   ret |-> GetFillingModes(symbol_info)]
    /\ UNCHANGED <<initialized, connected, config, last, phase, flowVars, emitVars, callVars>>

\* The terminal's table over the candidates of a gold ticker: the name, two
\* of its aliases and two of its suffix variants.
ValidateNames == {"XAUUSD", "GOLD", "XAU/USD", "XAUUSD.0", "XAUUSD.1"}
ValidateTables == [ValidateNames -> {"absent", "visible", "hidden", "locked"}]

CallValidateSymbol ==
    /\ helper = NoHelper
    /\ \E symbol \in {"XAUUSD", "xauusd"}, tbl \in ValidateTables :
        helper' = [fn |-> "validate_symbol", symbol |-> symbol, tbl |-> tbl,
                   ret |-> ValidateSymbol(symbol, tbl)]
    /\ UNCHANGED <<initialized, connected, config, last, phase, flowVars, emitVars, callVars>>

NoOp == [op |-> "none"]

NoConfig == [creds |-> FALSE, path |-> "unset", webhook |-> FALSE]

InitHelpers ==
    /\ initialized = FALSE
    /\ connected = FALSE
    /\ config = NoConfig
    /\ last = NoOp
    /\ helper = NoHelper
    /\ phase = "starting"
    /\ now = 0
    /\ utc_offset = 0
    /\ tick_buffers = <<>>
    /\ emissions = <<>>
    /\ callers = <<>>
    /\ session = FALSE

(***************************************************************************)
(* Large-order detection of compute_order_flow.  Tick volumes are Python   *)
(* ints, so their sum is exact; the average sum / len is a true division   *)
(* whose result is the nearest double, and the threshold average * 20 is   *)
(* rounded to the nearest double again.  A natural number of any size is a *)
(* sequence of digits in base 2^LimbBits, least significant first; a       *)
(* double is [m, e], standing for m * 2^e with m of DoubleMantissaBits     *)
(* binary digits.                                                          *)
(***************************************************************************)
LargeOrderMultiplier == 20
DoubleMantissaBits == 53
LimbBits == 15
Base == 2^LimbBits

RECURSIVE Trim(_)
Trim(b) == IF b = <<>> \/ b[Len(b)] # 0 THEN b ELSE Trim(SubSeq(b, 1, Len(b) - 1))

RECURSIVE FromNat(_)
FromNat(n) == IF n = 0 THEN <<>> ELSE <<n % Base>> \o FromNat(n \div Base)

Limb(b, i) == IF i <= Len(b) THEN b[i] ELSE 0

RECURSIVE AddFrom(_, _, _, _)
AddFrom(a, b, i, carry) ==
    IF i > Len(a) /\ i > Len(b) THEN FromNat(carry)
    ELSE LET s == Limb(a, i) + Limb(b, i) + carry
         IN  <<s % Base>> \o AddFrom(a, b, i + 1, s \div Base)

Add(a, b) == Trim(AddFrom(a, b, 1, 0))

\* b * k for 0 <= k < Base.
RECURSIVE MulFrom(_, _, _, _)
MulFrom(b, k, i, carry) ==
    IF i > Len(b) THEN FromNat(carry)
    ELSE LET p == b[i] * k + carry
         IN  <<p % Base>> \o MulFrom(b, k, i + 1, p \div Base)

MulSmall(b, k) == Trim(MulFrom(b, k, 1, 0))

\* The quotient and the remainder of a by d, 0 < d <= Base, by long division
\* from the most significant digit a[i] down.
RECURSIVE DivFrom(_, _, _, _)
DivFrom(a, d, i, rem) ==
    IF i = 0 THEN [q |-> <<>>, r |-> rem]
    ELSE LET cur == Base * rem + a[i]
             rest == DivFrom(a, d, i - 1, cur % d)
         IN  [q |-> Append(rest.q, cur \div d), r |-> rest.r]

DivSmall(a, d) == LET x == DivFrom(a, d, Len(a), 0) IN [q |-> Trim(x.q), r |-> x.r]

ShiftLeft(b, k) ==
    IF b = <<>> THEN <<>>
    ELSE [i \in 1..(k \div LimbBits) |-> 0] \o MulSmall(b, 2^(k % LimbBits))

ShiftRight(b, k) ==
    IF k \div LimbBits >= Len(b) THEN <<>>
    ELSE DivSmall(SubSeq(b, k \div LimbBits + 1, Len(b)), 2^(k % LimbBits)).q

RECURSIVE BitLength(_)
BitLength(n) == IF n = 0 THEN 0 ELSE 1 + BitLength(n \div 2)

BitLen(b) == IF b = <<>> THEN 0 ELSE LimbBits * (Len(b) - 1) + BitLength(b[Len(b)])

IsOdd(b) == b # <<>> /\ b[1] % 2 = 1

RECURSIVE GreaterEqFrom(_, _, _)
GreaterEqFrom(a, b, i) ==
    IF i = 0 THEN TRUE
    ELSE IF a[i] # b[i] THEN a[i] > b[i]
    ELSE GreaterEqFrom(a, b, i - 1)

GreaterEq(a, b) ==
    IF Len(a) # Len(b) THEN Len(a) > Len(b) ELSE GreaterEqFrom(a, b, Len(a))

\* The double nearest to num / d (ties to even), for num / d >= 1.
RoundToDouble(num, d) ==
    LET whole == DivSmall(num, d)
        len == BitLen(whole.q)
    IN  IF len <= DoubleMantissaBits
          THEN LET s == DoubleMantissaBits - len
                   x == DivSmall(ShiftLeft(num, s), d)
                   up == 2 * x.r > d \/ (2 * x.r = d /\ IsOdd(x.q))
               IN  [m |-> IF up THEN Add(x.q, <<1>>) ELSE x.q, e |-> 0 - s]
          ELSE LET t == len - DoubleMantissaBits
                   y == ShiftRight(whole.q, t - 1)
                   m == ShiftRight(y, 1)
                   sticky == whole.r > 0 \/ ShiftLeft(y, t - 1) # whole.q
                   up == IsOdd(y) /\ (sticky \/ IsOdd(m))
               IN  [m |-> IF up THEN Add(m, <<1>>) ELSE m, e |-> t]

\* int / int of Python.
TrueDivide(a, n) == RoundToDouble(a, n)

\* float * int of Python, for a small int.
FloatTimes(f, k) ==
    LET r == RoundToDouble(MulSmall(f.m, k), 1) IN [m |-> r.m, e |-> r.e + f.e]

\* int >= float of Python, which compares the exact values.
NatGreaterEq(a, f) ==
    IF f.e >= 0 THEN GreaterEq(a, ShiftLeft(f.m, f.e))
    ELSE GreaterEq(ShiftLeft(a, 0 - f.e), f.m)

\* A tick volume m * 2^e as a natural number.
VolumeBits(v) == ShiftLeft(FromNat(v.m), v.e)

\* sum(t.volume or 1 for t in recent_ticks[lo..hi]); the sum of ints is exact,
\* so it is taken by halves.
RECURSIVE SumVolumeBits(_, _, _)
SumVolumeBits(volumes, lo, hi) ==
    IF lo > hi THEN <<>>
    ELSE IF lo = hi
      THEN IF VolumeBits(volumes[lo]) = <<>> THEN <<1>> ELSE VolumeBits(volumes[lo])
    ELSE Add(SumVolumeBits(volumes, lo, (lo + hi) \div 2),
             SumVolumeBits(volumes, (lo + hi) \div 2 + 1, hi))

\* The volumes of recent_ticks that compute_order_flow lists as large orders.
LargeOrders(volumes) ==
    LET avg_tick_volume == TrueDivide(SumVolumeBits(volumes, 1, Len(volumes)), Len(volumes))
        large_order_threshold == FloatTimes(avg_tick_volume, LargeOrderMultiplier)
    IN  SelectSeq(volumes, LAMBDA v : /\ VolumeBits(v) # <<>>
                                      /\ NatGreaterEq(VolumeBits(v), large_order_threshold))

MaxWindow == 21        \* ticks in the window: 1..MaxWindow
MaxVolumeExp == 60     \* tick volumes: up to 3 * 2^MaxVolumeExp

FillerVolumes == {[m |-> k, e |-> 0] : k \in {0, 1, 3}}

TopVolumes ==
    {[m |-> k, e |-> x] : k \in {1, 3}, x \in {0, 5, 9, 20, 40, 53, 57, MaxVolumeExp - 2, MaxVolumeExp}}

\* A window of n ticks: one of volume top, the others of volume filler.
Window(n, filler, top, last_place) ==
    [i \in 1..n |-> IF i = (IF last_place THEN n ELSE 1) THEN top ELSE filler]

CallLargeOrders ==
    /\ helper = NoHelper
    /\ \E n \in 1..MaxWindow, filler \in FillerVolumes, top \in TopVolumes, last_place \in BOOLEAN :
        LET volumes == Window(n, filler, top, last_place)
        IN  helper' = [fn |-> "large_orders", volumes |-> volumes, ret |-> LargeOrders(volumes)]
    /\ UNCHANGED <<initialized, connected, config, last, phase, flowVars, emitVars, callVars>>


\* The helper's value has been used by its caller.
HelperReturn ==
    /\ helper # NoHelper
    /\ helper' = NoHelper
    /\ UNCHANGED <<initialized, connected, config, last, phase, flowVars, emitVars, callVars>>

NextHelpers ==
    \/ CallNormalizeVolume \/ CallAdjustStops \/ CallGetFillingModes
    \/ CallValidateSymbol \/ CallLargeOrders \/ HelperReturn

SpecHelpers == InitHelpers /\ [][NextHelpers]_vars

(***************************************************************************)
(* The connection manager.  A client state st is the two flags and the     *)
(* native calls made so far in the running operation; a holds the answers  *)
(* of the native layer.                                                    *)
(***************************************************************************)
Call(st, name) == [st EXCEPT !.calls = Append(@, name)]

\* MUTANT: a shutdown that resets the initialized flag only.
Shutdown_KeepsConnected(st, answer) ==
    IF ~st.initialized THEN st
    ELSE IF answer = "raise" THEN Call(st, "shutdown")
    ELSE [Call(st, "shutdown") EXCEPT !.initialized = FALSE]

\* MT5Client.shutdown: mt5.shutdown() may raise, and then the flags stay.
Shutdown(st, answer) ==
    IF ~st.initialized THEN st
    ELSE IF answer = "raise" THEN Call(st, "shutdown")
    ELSE [Call(st, "shutdown") EXCEPT !.initialized = FALSE, !.connected = FALSE]

Returned(st, ok, diag) ==
    [ok |-> ok, diag |-> diag, initialized |-> st.initialized,
     connected |-> st.connected, calls |-> st.calls]

\* MT5Client.initialize (with _login).
Initialize(st, cfg, a) ==
    LET s1 == Shutdown(st, a.shut1)
        s2 == Call(s1, IF cfg.path = "set" /\ a.path_exists
                         THEN "initialize_path" ELSE "initialize_auto")
    IN  IF a.init = "raise" THEN Returned(s2, FALSE, "exception")
        ELSE IF a.init = "fail"
          THEN Returned(Call(s2, "last_error"), FALSE, "initialize_failed")
        ELSE LET s3 == [s2 EXCEPT !.initialized = TRUE]
             IN  IF ~cfg.creds
                   THEN Returned([s3 EXCEPT !.connected = TRUE], TRUE, "initialized")
                 ELSE IF a.login = "ok"
                   THEN Returned([Call(s3, "login") EXCEPT !.connected = TRUE],
                                 TRUE, "initialized")
                 ELSE IF a.login = "fail"
                   THEN Returned(Shutdown(Call(Call(s3, "login"), "last_error"), a.shut2),
                                 FALSE, "login_failed")
                 ELSE Returned(Shutdown(Call(s3, "login"), a.shut2),
                               FALSE, "login_failed")

\* MUTANT: ensure_initialized that reinitializes whatever the probe says.
EnsureInitialized_AlwaysReinit(st, cfg, a) ==
    IF st.initialized /\ st.connected
      THEN Initialize(Call(st, "account_info"), cfg, a)
      ELSE Initialize(st, cfg, a)

\* MUTANT: ensure_initialized that reinitializes without shutting down first.
EnsureInitialized_NoShutdown(st, cfg, a) ==
    IF st.initialized /\ st.connected
      THEN IF a.probe = "ok"
             THEN Returned(Call(st, "account_info"), TRUE, "already_connected")
             ELSE Initialize([Call(st, "account_info") EXCEPT !.initialized = FALSE], cfg, a)
      ELSE Initialize(st, cfg, a)

\* MT5Client.ensure_initialized.
EnsureInitialized(st, cfg, a) ==
    IF st.initialized /\ st.connected
      THEN IF a.probe = "ok"
             THEN Returned(Call(st, "account_info"), TRUE, "already_connected")
             ELSE Initialize(Call(st, "account_info"), cfg, a)
      ELSE Initialize(st, cfg, a)

NativeAnswers ==
    [probe : {"ok", "none", "raise"}, shut1 : {"ok", "raise"}, shut2 : {"ok", "raise"},
     init : {"ok", "fail", "raise"}, login : {"ok", "fail", "raise"},
     path_exists : BOOLEAN]

Client == [initialized |-> initialized, connected |-> connected, calls |-> <<>>]

\* What ensure_initialized can return to an operation that calls it in client
\* state st, with the event of its return appended to the calls.
EnsureOutcomesFrom(st) ==
    {LET r == EnsureInitialized(st, config, a)
     IN  [r EXCEPT !.calls = Append(@, IF r.ok THEN "ensure_initialized:ok"
                                               ELSE "ensure_initialized:failed")] :
        a \in NativeAnswers}

EnsureOutcomes == EnsureOutcomesFrom(Client)

InitializeOutcomes == {Initialize(Client, config, a) : a \in NativeAnswers}

(***************************************************************************)
(* Answers of the native layer to the calls of one operation.              *)
(***************************************************************************)
KnownRetcodes ==
    {TRADE_RETCODE_DONE, TRADE_RETCODE_INVALID_STOPS, TRADE_RETCODE_INVALID_VOLUME,
     TRADE_RETCODE_INVALID_FILL, TRADE_RETCODE_AUTOTRADING_DISABLED}

\* Some return code the code does not name.
OtherRetcode == CHOOSE c \in 10000..10050 : c \notin KnownRetcodes

Raised == [kind |-> "raise"]
Nothing == [kind |-> "none"]

\* positions_get(ticket=...): raises, None, an empty tuple, or the position.
Positions ==
    [type : Directions, volume : {5, 10}, price_open : {5}, sl : {0, 3, 4}, tp : {0, 7}]
PositionAnswers ==
    {Raised, Nothing, [kind |-> "empty"]} \cup {[kind |-> "found", pos |-> p] : p \in Positions}

\* symbol_info_tick(symbol): raises, None, or the quote.
TickAnswers == {Raised, Nothing, [kind |-> "ok", bid |-> 4, ask |-> 5]}

\* symbol_info(symbol): raises, None, or the broker's constraints.
SymbolInfos ==
    [volume_min : {1}, volume_max : {5000}, volume_step : {1, 10}, point : {1},
     trade_stops_level : {0, 2}, filling_mode : {0, 1, 6}]
InfoAnswers == {Raised, Nothing} \cup {[kind |-> "ok", info |-> x] : x \in SymbolInfos}

InfoOpt(answer) == IF answer.kind = "ok" THEN Some(answer.info) ELSE None

\* order_send(request) in a closing loop: raises, None with last_error() giving
\* 10030 or another code, or a result with a return code.
CloseAnswers ==
    {Raised}
    \cup {[kind |-> "none", code |-> c] : c \in {TRADE_RETCODE_INVALID_FILL, OtherRetcode}}
    \cup {[kind |-> "ret", code |-> c] :
            c \in {TRADE_RETCODE_DONE, TRADE_RETCODE_INVALID_FILL, OtherRetcode}}

(***************************************************************************)
(* Results.  A run of an operation is the native calls it made, the        *)
(* requests it handed to order_send, and the dictionary it returned.       *)
(***************************************************************************)
Failure(kind) == [success |-> FALSE, kind |-> kind]

Run(calls, sent, res) == [calls |-> calls, sent |-> sent, res |-> res]

(***************************************************************************)
(* close_trade                                                             *)
(***************************************************************************)
OppositeType(pos) == IF pos.type = "buy" THEN "sell" ELSE "buy"
ClosingPrice(pos, tick) == IF pos.type = "buy" THEN tick.bid ELSE tick.ask

CloseRequest(pos, volume, price, filling_mode, what) ==
    [action |-> "DEAL", what |-> what, volume |-> volume, type |-> OppositeType(pos),
     price |-> price, type_filling |-> filling_mode]

\* The loop over filling_modes_to_try of close_trade and partial_close_trade:
\* the i-th request carries modes[i] and is answered by ans[i].
RECURSIVE CloseLoop(_, _, _, _, _, _)
CloseLoop(modes, ans, i, calls, sent, req) ==
    IF i > Len(modes) THEN Run(calls, sent, Failure("no_filling_mode"))
    ELSE LET a == ans[i]
             calls1 == Append(calls, "order_send")
             sent1 == Append(sent, [req EXCEPT !.type_filling = modes[i]])
         IN  IF a.kind = "raise" THEN Run(calls1, sent1, Failure("exception"))
             ELSE IF a.kind = "none"
               THEN IF a.code = TRADE_RETCODE_INVALID_FILL
                      THEN CloseLoop(modes, ans, i + 1, Append(calls1, "last_error"),
                                     sent1, req)
                      ELSE Run(Append(calls1, "last_error"), sent1, Failure("send_failed"))
             ELSE IF a.code = TRADE_RETCODE_DONE
               THEN Run(calls1, sent1, [success |-> TRUE, kind |-> "closed",
                                        volume_closed |-> req.volume])
             ELSE IF a.code = TRADE_RETCODE_INVALID_FILL
               THEN CloseLoop(modes, ans, i + 1, calls1, sent1, req)
             ELSE Run(calls1, sent1, Failure("rejected"))

\* close_trade without the test of what ensure_initialized returned.
CloseTrade_NoEnsureCheck(e, posA, tickA, infoA, ans) ==
    LET c1 == Append(e.calls, "positions_get")
    IN  IF posA.kind # "found" THEN Run(c1, <<>>, Failure("not_found"))
        ELSE CloseLoop(GetFillingModes(InfoOpt(infoA)), ans, 1, c1, <<>>,
                       CloseRequest(posA.pos, posA.pos.volume, 0, 0, "close"))

\* close_trade(ticket), entered with what ensure_initialized returned.
CloseTrade(e, posA, tickA, infoA, ans) ==
    IF ~e.ok THEN Run(e.calls, <<>>, Failure("connection"))
    ELSE LET c1 == Append(e.calls, "positions_get")
             c2 == Append(c1, "symbol_info_tick")
             c3 == Append(c2, "symbol_info")
         IN  IF posA.kind = "raise" THEN Run(c1, <<>>, Failure("exception"))
             ELSE IF posA.kind # "found" THEN Run(c1, <<>>, Failure("not_found"))
             ELSE IF tickA.kind = "raise" THEN Run(c2, <<>>, Failure("exception"))
             ELSE IF tickA.kind = "none"
               THEN Run(Append(c2, "last_error"), <<>>, Failure("no_tick"))
             ELSE IF infoA.kind = "raise" THEN Run(c3, <<>>, Failure("exception"))
             ELSE CloseLoop(GetFillingModes(InfoOpt(infoA)), ans, 1, c3, <<>>,
                            CloseRequest(posA.pos, posA.pos.volume,
                                         ClosingPrice(posA.pos, tickA), 0, "close"))

(***************************************************************************)
(* modify_trade                                                            *)
(***************************************************************************)
Truthy(x) == ~IsNone(x) /\ Val(x) # 0

ModifyAnswers ==
    {Raised, Nothing} \cup {[kind |-> "ret", code |-> c] : c \in {TRADE_RETCODE_DONE, OtherRetcode}}

\* modify_trade(ticket, stop_loss, take_profit), entered with what
\* ensure_initialized returned.
ModifyTrade(e, stop_loss, take_profit, posA, infoA, a) ==
    IF ~e.ok THEN Run(e.calls, <<>>, Failure("connection"))
    ELSE LET c1 == Append(e.calls, "positions_get")
             c2 == Append(c1, "symbol_info")
             c3 == Append(c2, "order_send")
         IN  IF posA.kind = "raise" THEN Run(c1, <<>>, Failure("exception"))
             ELSE IF posA.kind # "found" THEN Run(c1, <<>>, Failure("not_found"))
             ELSE IF infoA.kind = "raise" THEN Run(c2, <<>>, Failure("exception"))
             ELSE IF infoA.kind = "none"
               THEN Run(Append(c2, "last_error"), <<>>, Failure("no_symbol_info"))
             ELSE
               LET pos == posA.pos
                   sl0 == IF ~IsNone(stop_loss) THEN stop_loss ELSE Some(pos.sl)
                   tp0 == IF ~IsNone(take_profit) THEN take_profit ELSE Some(pos.tp)
                   adjusted == AdjustStops(infoA.info, pos.price_open, sl0, tp0, pos.type)
                   given == ~IsNone(stop_loss) \/ ~IsNone(take_profit)
                   new_sl == IF given THEN adjusted.sl ELSE sl0
                   new_tp == IF given THEN adjusted.tp ELSE tp0
                   request == [action |-> "SLTP", what |-> "modify",
                               sl |-> IF Truthy(new_sl) THEN Val(new_sl) ELSE pos.sl,
                               tp |-> IF Truthy(new_tp) THEN Val(new_tp) ELSE pos.tp]
               IN  IF a.kind = "raise" THEN Run(c3, <<request>>, Failure("exception"))
                   ELSE IF a.kind = "none"
                     THEN Run(Append(c3, "last_error"), <<request>>, Failure("send_failed"))
                   ELSE IF a.code = TRADE_RETCODE_DONE
                     THEN Run(c3, <<request>>, [success |-> TRUE, kind |-> "modified",
                                                new_sl |-> new_sl, new_tp |-> new_tp])
                   ELSE Run(c3, <<request>>, Failure("rejected"))

(***************************************************************************)
(* The two calls of _normalize_volume.  The method takes (requested,       *)
(* symbol_info, symbol); a call that passes another number of arguments    *)
(* raises TypeError before the method's body runs.                         *)
(***************************************************************************)
NormalizeVolumeParams == 3
OpenTradeNormalizeArgs == 2
PartialCloseNormalizeArgs == 2

CallBinds(nargs) == nargs = NormalizeVolumeParams

(***************************************************************************)
(* partial_close_trade                                                     *)
(***************************************************************************)
\* Up to the call of _normalize_volume.  kind "normalized" says the call
\* returned, with what.
PartialClosePrefix(e, volume_percent, posA, infoA) ==
    IF ~e.ok THEN Run(e.calls, <<>>, Failure("connection"))
    ELSE LET c1 == Append(e.calls, "positions_get")
             c2 == Append(c1, "symbol_info")
         IN  IF volume_percent <= 0 \/ volume_percent >= 100
               THEN Run(e.calls, <<>>, Failure("bad_percent"))
             ELSE IF posA.kind = "raise" THEN Run(c1, <<>>, Failure("exception"))
             ELSE IF posA.kind # "found" THEN Run(c1, <<>>, Failure("not_found"))
             ELSE IF infoA.kind = "raise" THEN Run(c2, <<>>, Failure("exception"))
             ELSE IF infoA.kind = "none"
               THEN Run(Append(c2, "last_error"), <<>>, Failure("no_symbol_info"))
             ELSE IF ~CallBinds(PartialCloseNormalizeArgs)
               THEN Run(c2, <<>>, Failure("exception"))
             ELSE Run(c2, <<>>,
                      [success |-> FALSE, kind |-> "normalized",
                       nv |-> NormalizeVolume(posA.pos.volume * volume_percent, 100,
                                              infoA.info)])

\* From the return of _normalize_volume on.  A normalized volume that reaches
\* the position's volume hands over to close_trade, which runs from its start
\* (e2 and the answers after it).
PartialCloseRest(pre, posA, infoA, tickA, ans, e2, posA2, tickA2, infoA2, ans2) ==
    LET nv == pre.res.nv
        c3 == Append(pre.calls, "symbol_info_tick")
    IN  IF nv.err # "none" THEN Run(pre.calls, <<>>, Failure("volume"))
        ELSE IF nv.vol >= posA.pos.volume
          THEN LET r == CloseTrade(e2, posA2, tickA2, infoA2, ans2)
               IN  Run(pre.calls \o r.calls, r.sent, r.res)
        ELSE IF tickA.kind = "raise" THEN Run(c3, <<>>, Failure("exception"))
        ELSE IF tickA.kind = "none"
          THEN Run(Append(c3, "last_error"), <<>>, Failure("no_tick"))
        ELSE CloseLoop(GetFillingModes(InfoOpt(infoA)), ans, 1, c3, <<>>,
                       CloseRequest(posA.pos, nv.vol, ClosingPrice(posA.pos, tickA), 0,
                                    "partial_close"))

(***************************************************************************)
(* open_trade, up to the volume normalization                              *)
(***************************************************************************)
\* request.get('stop_loss') or request.get('stop_loss_price'): a zero is None.
OrNone(x) == IF Truthy(x) THEN x ELSE None

\* The directional check with the boundary let through.
PendingPriceSane_NonStrict(direction, order_kind, entry_price, tick) ==
    IF direction = "buy"
      THEN IF order_kind = "limit" THEN entry_price <= tick.ask ELSE entry_price >= tick.ask
      ELSE IF order_kind = "limit" THEN entry_price >= tick.bid ELSE entry_price <= tick.bid

\* The directional check of a pending order's entry price against the quote.
PendingPriceSane(direction, order_kind, entry_price, tick) ==
    IF direction = "buy"
      THEN IF order_kind = "limit" THEN entry_price < tick.ask ELSE entry_price > tick.ask
      ELSE IF order_kind = "limit" THEN entry_price > tick.bid ELSE entry_price < tick.bid

\* open_trade(request), entered with what ensure_initialized and validate_symbol
\* returned.  kind "normalized" says the call of _normalize_volume returned.
OpenTradePrefix(e, req, v, tickA, infoA, infoA2) ==
    IF ~e.ok THEN Run(e.calls, <<>>, Failure("connection"))
    ELSE LET c0 == e.calls \o v.calls
             c1 == Append(c0, "symbol_info_tick")
             c2 == Append(c1, "symbol_info")
             c3 == Append(c2, "symbol_info")
             pending == req.order_kind \in {"limit", "stop"}
         IN  IF ~v.valid THEN Run(c0, <<>>, Failure("symbol_not_found"))
             ELSE IF tickA.kind = "raise" THEN Run(c1, <<>>, Failure("exception"))
             ELSE IF tickA.kind = "none"
               THEN Run(Append(c1, "last_error"), <<>>, Failure("no_tick"))
             ELSE IF infoA.kind = "raise" THEN Run(c2, <<>>, Failure("exception"))
             ELSE IF infoA.kind = "none"
               THEN Run(Append(c2, "last_error"), <<>>, Failure("no_symbol_info"))
             ELSE IF req.order_kind \notin {"market", "limit", "stop"}
               THEN Run(c2, <<>>, Failure("invalid_order_kind"))
             ELSE IF pending /\ (IsNone(req.entry_price) \/ Val(req.entry_price) <= 0)
               THEN Run(c2, <<>>, Failure("entry_price_required"))
             ELSE IF pending /\ ~PendingPriceSane(req.direction, req.order_kind,
                                                  Val(req.entry_price), tickA)
               THEN Run(c2, <<>>, Failure("invalid_pending_price"))
             ELSE IF infoA2.kind = "raise" THEN Run(c3, <<>>, Failure("exception"))
             ELSE IF infoA2.kind = "none"
               THEN Run(Append(c3, "last_error"), <<>>, Failure("no_symbol_info"))
             ELSE IF ~CallBinds(OpenTradeNormalizeArgs)
               THEN Run(c3, <<>>, Failure("exception"))
             ELSE Run(c3, <<>>,
                      [success |-> FALSE, kind |-> "normalized",
                       nv |-> NormalizeVolume(req.lot_size, 1, infoA2.info)])

\* The route POST /api/v1/trades/open: a request without a positive stop-loss
\* is refused before the client is called.
OpenTradeRoute(e, req, v, tickA, infoA, infoA2) ==
    IF IsNone(req.stop_loss) \/ Val(req.stop_loss) <= 0
      THEN Run(<<>>, <<>>, Failure("stop_loss_required"))
      ELSE OpenTradePrefix(e, [req EXCEPT !.stop_loss = OrNone(@), !.take_profit = OrNone(@)],
                           v, tickA, infoA, infoA2)

(***************************************************************************)
(* open_trade, from the volume normalization on                            *)
(***************************************************************************)
\* The answers of order_send to an opening order, and the answer to the
\* i-th order of one operation: the broker's answers are a sequence whose
\* last element answers every later order as well.
OpenAnswers ==
    {Raised, Nothing}
    \cup {[kind |-> "ret", code |-> c] : c \in KnownRetcodes \cup {OtherRetcode}}

AnswerTo(script, i) == IF i <= Len(script) THEN script[i] ELSE script[Len(script)]

\* _make_success_response: ticket, symbol, volume, price, direction and
\* order_kind, and no other field.
MakeSuccessResponse(volume, price, direction, order_kind) ==
    [success |-> TRUE, kind |-> "opened", volume |-> volume, price |-> price,
     direction |-> direction, order_kind |-> order_kind]

\* The dictionary handed to order_send.  A pending order carries no
\* type_filling.
TradeRequest(c, L, filling_mode) ==
    [action |-> IF c.market THEN "DEAL" ELSE "PENDING", what |-> "open",
     volume |-> c.lot_size, type |-> c.direction, order_kind |-> c.order_kind,
     price |-> c.entry_price_used,
     sl |-> IF IsNone(L.adjusted_sl) THEN 0 ELSE Val(L.adjusted_sl),
     tp |-> IF IsNone(L.adjusted_tp) THEN 0 ELSE Val(L.adjusted_tp),
     type_filling |-> IF c.market THEN filling_mode ELSE 0]

\* The fallback modes not tried so far, in the order of all_fallback_modes.
FallbackToAdd(tried) ==
    SelectSeq(AllFillingModes, LAMBDA m : m \notin tried)

\* for attempt in range(2): ... while modes_index < len(modes_list): ...
\* c holds what the loop only reads, L its locals, the calls made and the
\* requests sent so far.
RECURSIVE SubmitAttempt(_, _)
RECURSIVE SubmitModes(_, _)
SubmitAttempt(c, L) ==
    IF L.attempt >= 2
      THEN Run(L.calls, L.sent,
               Failure(IF c.market THEN "no_filling_mode" ELSE "pending_failed"))
      ELSE SubmitModes(c, [L EXCEPT
               !.adjusted_sl = IF L.attempt > 0 THEN Some(0) ELSE @,
               !.adjusted_tp = IF L.attempt > 0 THEN Some(0) ELSE @,
               !.retry_without_stops = (L.attempt > 0),
               !.modes_list = c.filling_modes_to_try,
               !.modes_index = 0])

SubmitModes(c, L) ==
    IF L.modes_index >= Len(L.modes_list)
      THEN SubmitAttempt(c, [L EXCEPT !.attempt = @ + 1])
    ELSE
      LET filling_mode == L.modes_list[L.modes_index + 1]
          request == TradeRequest(c, L, filling_mode)
          a == AnswerTo(c.script, Len(L.sent) + 1)
          retry_request == [request EXCEPT !.sl = 0, !.tp = 0]
          b == AnswerTo(c.script, Len(L.sent) + 2)
          tried1 == IF c.market THEN L.tried_modes \cup {filling_mode} ELSE L.tried_modes
          L1 == [L EXCEPT !.modes_index = @ + 1, !.tried_modes = tried1,
                          !.calls = Append(@, "order_send"),
                          !.sent = Append(@, request)]
          L2 == [L1 EXCEPT !.calls = Append(@, "order_send"),
                           !.sent = Append(@, retry_request)]
          next_attempt == [L1 EXCEPT !.attempt = @ + 1]
          extend == /\ L1.modes_index >= Len(c.filling_modes_to_try)
                    /\ ~L1.has_tried_fallback
                    /\ FallbackToAdd(tried1) # <<>>
      IN  IF a.kind = "raise" THEN Run(L1.calls, L1.sent, Failure("exception"))
          ELSE IF a.kind = "none"
            THEN IF c.market
                   THEN SubmitModes(c, [L1 EXCEPT !.calls = Append(@, "last_error")])
                   ELSE SubmitAttempt(c, [next_attempt EXCEPT
                                              !.calls = Append(@, "last_error")])
          ELSE IF a.code = TRADE_RETCODE_DONE
            THEN Run(L1.calls, L1.sent,
                     MakeSuccessResponse(c.normalized_volume, c.entry_price_used,
                                         c.direction, c.order_kind))
          ELSE IF a.code = TRADE_RETCODE_INVALID_STOPS
            THEN IF c.market
                   THEN IF b.kind = "raise"
                          THEN Run(L2.calls, L2.sent, Failure("exception"))
                        ELSE IF b.kind = "none"
                          THEN Run(Append(L2.calls, "last_error"), L2.sent,
                                   Failure("retry_send_failed"))
                        ELSE IF b.code = TRADE_RETCODE_DONE
                          THEN Run(L2.calls, L2.sent,
                                   MakeSuccessResponse(c.normalized_volume,
                                                       c.entry_price_used,
                                                       c.direction, c.order_kind))
                        ELSE Run(L2.calls, L2.sent, Failure("retry_rejected"))
                 ELSE IF L.attempt = 0 THEN SubmitAttempt(c, next_attempt)
                 ELSE Run(L1.calls, L1.sent, Failure("invalid_stops"))
          ELSE IF a.code = TRADE_RETCODE_INVALID_VOLUME
            THEN Run(L1.calls, L1.sent, Failure("invalid_volume"))
          ELSE IF a.code = TRADE_RETCODE_INVALID_FILL
            THEN IF c.market
                   THEN SubmitModes(c, IF extend
                            THEN [L1 EXCEPT !.modes_list = @ \o FallbackToAdd(tried1),
                                            !.has_tried_fallback = TRUE]
                            ELSE L1)
                   ELSE Run(L1.calls, L1.sent, Failure("rejected"))
          ELSE IF a.code = TRADE_RETCODE_AUTOTRADING_DISABLED
            THEN Run(L1.calls, L1.sent, Failure("autotrading_disabled"))
          ELSE IF c.market THEN SubmitAttempt(c, next_attempt)
          ELSE Run(L1.calls, L1.sent, Failure("rejected"))

\* What open_trade does once _normalize_volume has returned: lot_size becomes
\* the value returned, the stops are adjusted against the entry price, and the
\* order goes through the submission loop.
OpenTradeRest(pre, req, tickA, infoA2, script) ==
    LET market == req.order_kind = "market"
        entry_price_used ==
            IF market THEN (IF req.direction = "buy" THEN tickA.ask ELSE tickA.bid)
                      ELSE Val(req.entry_price)
        naked == IsNone(req.stop_loss) /\ IsNone(req.take_profit)
        adjusted == AdjustStops(infoA2.info, entry_price_used, req.stop_loss,
                                req.take_profit, req.direction)
        c == [market |-> market, direction |-> req.direction,
              order_kind |-> req.order_kind, lot_size |-> pre.res.nv,
              normalized_volume |-> pre.res.nv, entry_price_used |-> entry_price_used,
              filling_modes_to_try |->
                  IF market THEN GetFillingModes(InfoOpt(infoA2))
                            ELSE <<ORDER_FILLING_RETURN>>,
              script |-> script]
        L == [attempt |-> 0, modes_list |-> <<>>, modes_index |-> 0, tried_modes |-> {},
              has_tried_fallback |-> FALSE, retry_without_stops |-> FALSE,
              adjusted_sl |-> IF naked THEN None ELSE adjusted.sl,
              adjusted_tp |-> IF naked THEN None ELSE adjusted.tp,
              calls |-> pre.calls, sent |-> <<>>]
    IN  SubmitAttempt(c, L)

(***************************************************************************)
(* The service: one client, and the operations its routes run on it.  An   *)
(* operation runs to its return; `last` then holds its run (the inputs it  *)
(* consumed, the native calls it made, the requests it sent, its result)   *)
(* until the response is delivered.                                        *)
(***************************************************************************)
Configs == [creds : BOOLEAN, path : {"unset", "set"}, webhook : BOOLEAN]

\* Requests the route's model (OpenTradeRequest) lets through: a positive
\* lot_size, an upper-case symbol, a lower-case direction, and a positive
\* entry_price on a pending order.
StopPairs == {<<None, None>>, <<Some(0), None>>, <<Some(3), None>>, <<Some(3), Some(7)>>,
              <<Some(7), Some(3)>>}
OpenRequests ==
    {[symbol |-> "XAUUSD", direction |-> d, order_kind |-> "market", lot_size |-> 10,
      entry_price |-> None, stop_loss |-> sp[1], take_profit |-> sp[2]] :
        d \in Directions, sp \in StopPairs}
    \cup
    {[symbol |-> "XAUUSD", direction |-> d, order_kind |-> k, lot_size |-> 10,
      entry_price |-> Some(p), stop_loss |-> sp[1], take_profit |-> sp[2]] :
        d \in Directions, k \in {"limit", "stop"}, p \in {3, 4, 5, 6}, sp \in StopPairs}
    \cup
    \* a volume more than 10% above the largest one of every SymbolInfos
    {[symbol |-> "XAUUSD", direction |-> d, order_kind |-> "market", lot_size |-> 6000,
      entry_price |-> None, stop_loss |-> Some(3), take_profit |-> Some(7)] :
        d \in Directions}

\* The stops of a modify request: those of StopPairs, and a take-profit alone.
ModifyStops == StopPairs \cup {<<None, Some(7)>>}

\* The first symbol_info of open_trade is only tested against None.
InfoSeen == {Raised, Nothing, [kind |-> "ok"]}

OpenScripts ==
    {<<a, b>> : a \in {[kind |-> "ret", code |-> c] :
                          c \in {TRADE_RETCODE_DONE, TRADE_RETCODE_INVALID_STOPS}},
                b \in {[kind |-> "ret", code |-> c] :
                          c \in {TRADE_RETCODE_DONE, OtherRetcode}}}
    \cup
    \* a broker that refuses every filling mode
    {<<[kind |-> "ret", code |-> TRADE_RETCODE_INVALID_FILL],
       [kind |-> "ret", code |-> TRADE_RETCODE_INVALID_FILL]>>}

CloseScripts == {<<a, b, b>> : a \in CloseAnswers, b \in CloseAnswers}

VolumePercents == {50, 60, 99}

\* MT5Client(config) and OrderEventEmitter(config) just constructed, the
\* accumulator empty.
InitWith(configs, offsets) ==
    /\ initialized = FALSE
    /\ connected = FALSE
    /\ config \in configs
    /\ last = NoOp
    /\ helper = NoHelper
    /\ phase = "starting"
    /\ now = 0
    /\ utc_offset \in offsets
    /\ tick_buffers = <<>>
    /\ emissions = <<>>
    /\ callers = <<>>
    /\ session = FALSE

\* The service without a webhook URL: the emitter is disabled.
Init == InitWith({c \in Configs : ~c.webhook}, {0})

\* An operation returns: the client is left as ensure_initialized left it.
Finish(op, inp, e, r) ==
    /\ initialized' = e.initialized
    /\ connected' = e.connected
    /\ last' = [op |-> op, inp |-> inp, calls |-> r.calls, sent |-> r.sent, res |-> r.res]
    /\ UNCHANGED <<config, helper>>

\* A request is served: the service is up and the previous response is out.
Serving == phase = "serving" /\ last = NoOp

\* lifespan, startup: mt5_client.initialize(); the service then serves whether
\* or not the terminal could be reached.
DoInitialize ==
    /\ phase = "starting"
    /\ last = NoOp
    /\ \E r \in InitializeOutcomes :
        Finish("initialize", <<>>, r,
               Run(r.calls, <<>>, [success |-> r.ok, kind |-> r.diag]))
    /\ phase' = "serving"
    /\ UNCHANGED <<flowVars, emitVars, callVars>>

\* lifespan, shutdown: mt5_client.shutdown().
DoShutdown ==
    /\ Serving
    /\ \E a \in {"ok", "raise"} :
        LET st == Shutdown(Client, a)
        IN  Finish("shutdown", <<>>, st, Run(st.calls, <<>>, [success |-> TRUE, kind |-> a]))
    /\ phase' = "stopped"
    /\ UNCHANGED <<flowVars, emitVars, callVars>>

\* POST /api/v1/trades/close.
DoCloseTrade ==
    /\ Serving
    /\ UNCHANGED <<phase, flowVars, emitVars, callVars>>
    /\ \E e \in EnsureOutcomes :
        IF ~e.ok THEN Finish("close_trade", <<>>, e,
                             CloseTrade(e, Raised, Raised, Raised, <<>>))
        ELSE \E posA \in PositionAnswers :
          IF posA.kind # "found"
            THEN Finish("close_trade", <<posA>>, e, CloseTrade(e, posA, Raised, Raised, <<>>))
          ELSE \E tickA \in TickAnswers :
            IF tickA.kind # "ok"
              THEN Finish("close_trade", <<posA, tickA>>, e,
                          CloseTrade(e, posA, tickA, Raised, <<>>))
            ELSE \E infoA \in InfoAnswers :
              IF infoA.kind = "raise"
                THEN Finish("close_trade", <<posA, tickA, infoA>>, e,
                            CloseTrade(e, posA, tickA, infoA, <<>>))
              ELSE \E ans \in CloseScripts :
                Finish("close_trade", <<posA, tickA, infoA>>, e,
                       CloseTrade(e, posA, tickA, infoA, ans))

\* The methods class MT5Client defines; a call of any other name on the client
\* raises AttributeError.
ClientMethods ==
    {"initialize", "ensure_initialized", "shutdown", "is_connected", "validate_symbol",
     "get_price", "open_trade", "modify_trade", "partial_close_trade", "close_trade",
     "get_open_positions"}

HasMethod(name) == name \in ClientMethods

\* An exception that leaves the route handler unconverted.
Escaped(exception) == [success |-> FALSE, kind |-> "escaped", exception |-> exception]

\* raise HTTPException(status_code=status, ...)
HttpError(status, kind) == [success |-> FALSE, kind |-> kind, http |-> status]

\* A listing response: success, the items, and whether an error text is attached.
Listing(success, kind, items) ==
    [success |-> success, kind |-> kind, items |-> items, error |-> ~success]

(***************************************************************************)
(* The order event emitter.  An emission task is the coroutine             *)
(* _emit_event(event) created by asyncio.create_task: the index of its     *)
(* loop, where it stands, the POSTs it made and the delays it slept.       *)
(***************************************************************************)
RetryCount == 3

MaxEmissions == 1   \* no modify request is served while this many tasks exist

\* MUTANT: the route awaits the emission, here one that failed every attempt.
CreateTask_Awaited(event_type) ==
    [event_type |-> event_type, attempt |-> RetryCount, pc |-> "done", posts |-> RetryCount,
     slept |-> <<1, 2>>, result |-> "dropped"]

\* asyncio.create_task(order_event_emitter.emit_...(...)): nothing has run yet.
CreateTask(event_type) ==
    [event_type |-> event_type, attempt |-> 0, pc |-> "post", posts |-> 0,
     slept |-> <<>>, result |-> "pending"]

\* What a POST to the webhook comes to: a status, a timeout, a transport error.
WebhookAnswers == {"200", "500", "timeout", "error"}

\* 2 ** attempt
RECURSIVE Backoff(_)
Backoff(attempt) == IF attempt = 0 THEN 1 ELSE 2 * Backoff(attempt - 1)

\* One turn of the loop of _emit_event up to its next await.
Posted(task, answer) ==
    LET t == [task EXCEPT !.posts = @ + 1]
    IN  IF answer = "200" THEN [t EXCEPT !.pc = "done", !.result = "delivered"]
        ELSE IF task.attempt < RetryCount - 1 THEN [t EXCEPT !.pc = "sleep"]
        ELSE [t EXCEPT !.attempt = @ + 1, !.pc = "done", !.result = "dropped"]

\* The task's POST completes.
EmitPost ==
    /\ \E i \in 1..Len(emissions), answer \in WebhookAnswers :
        /\ emissions[i].pc = "post"
        /\ emissions' = [emissions EXCEPT ![i] = Posted(@, answer)]
    /\ UNCHANGED <<initialized, connected, config, last, helper, phase, flowVars, callVars>>

\* await asyncio.sleep(2 ** attempt) returns and the loop goes on.
EmitWake ==
    /\ \E i \in 1..Len(emissions) :
        /\ emissions[i].pc = "sleep"
        /\ emissions' = [emissions EXCEPT ![i] =
                            [@ EXCEPT !.slept = Append(@, Backoff(emissions[i].attempt)),
                                      !.attempt = @ + 1, !.pc = "post"]]
    /\ UNCHANGED <<initialized, connected, config, last, helper, phase, flowVars, callVars>>

\* A finished task is forgotten by the event loop.
EmitCollect ==
    /\ emissions # <<>>
    /\ Head(emissions).pc = "done"
    /\ emissions' = Tail(emissions)
    /\ UNCHANGED <<initialized, connected, config, last, helper, phase, flowVars, callVars>>

\* The event type the modify route derives from the request.
ModifyEventType(stop_loss, take_profit) ==
    IF ~IsNone(stop_loss) /\ IsNone(take_profit) THEN "sl_modified"
    ELSE IF ~IsNone(take_profit) /\ IsNone(stop_loss) THEN "tp_modified"
    ELSE "position_modified"

\* mt5.positions_get(ticket=...) of the modify route, for the event.
EventPositionAnswers(posA) == {Raised, Nothing, [kind |-> "empty"], posA}

\* POST /api/v1/trades/modify after MT5Client.modify_trade returned r: the
\* response, and the emission tasks the route created.
ModifyTradeRoute(r, stop_loss, take_profit, posB) ==
    IF ~r.res.success \/ ~config.webhook THEN [run |-> r, tasks |-> <<>>]
    ELSE IF posB.kind = "raise"
      THEN [run |-> Run(Append(r.calls, "positions_get"), r.sent, Escaped("native")),
            tasks |-> <<>>]
    ELSE [run |-> Run(Append(r.calls, "positions_get"), r.sent, r.res),
          tasks |-> IF posB.kind = "found"
                      THEN <<CreateTask(ModifyEventType(stop_loss, take_profit))>>
                      ELSE <<>>]


\* The modify route returns what the client returned.
FinishModify(inp, e, r) ==
    /\ Finish("modify_trade", inp, e, r)
    /\ UNCHANGED emitVars

\* POST /api/v1/trades/modify.
DoModifyTrade ==
    /\ Serving
    /\ Len(emissions) < MaxEmissions
    /\ UNCHANGED <<phase, flowVars, callVars>>
    /\ \E e \in EnsureOutcomes, sp \in ModifyStops :
        IF ~e.ok THEN FinishModify(<<sp>>, e,
                                   ModifyTrade(e, sp[1], sp[2], Raised, Raised, Raised))
        ELSE \E posA \in PositionAnswers :
          IF posA.kind # "found"
            THEN FinishModify(<<sp, posA>>, e,
                              ModifyTrade(e, sp[1], sp[2], posA, Raised, Raised))
          ELSE \E infoA \in InfoAnswers :
            IF infoA.kind # "ok"
              THEN FinishModify(<<sp, posA, infoA>>, e,
                                ModifyTrade(e, sp[1], sp[2], posA, infoA, Raised))
              ELSE \E a \in ModifyAnswers :
                LET r == ModifyTrade(e, sp[1], sp[2], posA, infoA, a)
                IN  IF ~r.res.success \/ ~config.webhook
                      THEN FinishModify(<<sp, posA, infoA>>, e, r)
                      ELSE \E posB \in EventPositionAnswers(posA) :
                        LET out == ModifyTradeRoute(r, sp[1], sp[2], posB)
                        IN  /\ Finish("modify_trade", <<sp, posA, infoA, posB>>, e, out.run)
                            /\ emissions' = emissions \o out.tasks

\* POST /api/v1/trades/partial-close.
DoPartialClose ==
    /\ Serving
    /\ UNCHANGED <<phase, flowVars, emitVars, callVars>>
    /\ \E e \in EnsureOutcomes, pct \in VolumePercents :
        IF ~e.ok THEN Finish("partial_close_trade", <<pct>>, e,
                             PartialClosePrefix(e, pct, Raised, Raised))
        ELSE \E posA \in PositionAnswers :
          IF posA.kind # "found"
            THEN Finish("partial_close_trade", <<pct, posA>>, e,
                        PartialClosePrefix(e, pct, posA, Raised))
          ELSE \E infoA \in InfoAnswers :
            LET pre == PartialClosePrefix(e, pct, posA, infoA)
            IN  IF pre.res.kind # "normalized"
                  THEN Finish("partial_close_trade", <<pct, posA, infoA>>, e, pre)
                  ELSE \E tickA \in TickAnswers, ans \in CloseScripts,
                          e2 \in EnsureOutcomesFrom([e EXCEPT !.calls = <<>>]),
                          posA2 \in PositionAnswers, tickA2 \in TickAnswers,
                          infoA2 \in InfoAnswers, ans2 \in CloseScripts :
                         Finish("partial_close_trade", <<pct, posA, infoA>>,
                                IF pre.res.nv.err = "none"
                                   /\ pre.res.nv.vol >= posA.pos.volume THEN e2 ELSE e,
                                PartialCloseRest(pre, posA, infoA, tickA, ans, e2, posA2,
                                                 tickA2, infoA2, ans2))

(***************************************************************************)
(* The status of a failed open-trade request                               *)
(***************************************************************************)
\* The text of each failure of open_trade, in lower case, as the words of its
\* fixed part; the texts of the terminal and of exceptions that some of them
\* embed are left out.
ErrorWords(kind) ==
    CASE kind = "connection" -> <<"mt5", "connection", "failed">>
      [] kind = "symbol_not_found" -> <<"symbol", "not", "found">>
      [] kind = "no_tick" -> <<"failed", "to", "get", "market", "price">>
      [] kind = "no_symbol_info" -> <<"could", "not", "get", "symbol", "info">>
      [] kind = "entry_price_required" -> <<"entry_price", "is", "required">>
      [] kind = "invalid_pending_price" -> <<"invalid", "pending", "order">>
      [] kind = "invalid_order_kind" -> <<"invalid", "order_kind">>
      [] kind = "exception" -> <<"exception", "during", "open_trade">>
      [] kind = "no_filling_mode" -> <<"no", "supported", "filling", "mode", "found">>
      [] OTHER -> <<"ordersend", "failed">>

\* word in error_msg.lower()
Mentions(words, word) == \E i \in 1..Len(words) : words[i] = word

\* Every failure taken for a client error.
OpenTradeStatus_Always400(words) == 400

\* 500 for a text that mentions the connection or the initialization, 400
\* for every other one.
OpenTradeStatus(words) ==
    IF Mentions(words, "connection") \/ Mentions(words, "initialize") THEN 500 ELSE 400

\* What the route answers to the outcome of the client: a failure is raised
\* as an HTTP error whose status is read off the error text; the refusal of
\* a missing stop-loss is raised by the route itself as a 400.
OpenTradeResponse(r) ==
    IF r.res.success THEN r
    ELSE [r EXCEPT !.res =
            HttpError(IF r.res.kind = "stop_loss_required" THEN 400
                      ELSE OpenTradeStatus(ErrorWords(r.res.kind)),
                      r.res.kind)]

FinishOpen(inp, e, r) == Finish("open_trade", inp, e, OpenTradeResponse(r))


\* POST /api/v1/trades/open.
DoOpenTrade ==
    /\ Serving
    /\ UNCHANGED <<phase, flowVars, emitVars, callVars>>
    /\ \E req \in OpenRequests :
        IF IsNone(req.stop_loss) \/ Val(req.stop_loss) <= 0
          THEN FinishOpen(<<req>>, Client,
                      OpenTradeRoute(Client, req, Raised, Raised, Raised, Raised))
        ELSE \E e \in EnsureOutcomes :
          IF ~e.ok THEN FinishOpen(<<req>>, e,
                               OpenTradeRoute(e, req, Raised, Raised, Raised, Raised))
          ELSE \E v \in ValidateOutcomes(req.symbol) :
            IF ~v.valid THEN FinishOpen(<<req>>, e,
                                    OpenTradeRoute(e, req, v, Raised, Raised, Raised))
            ELSE \E tickA \in TickAnswers, infoA \in InfoSeen :
              LET early == OpenTradeRoute(e, req, v, tickA, infoA, Raised)
              IN  IF early.res.kind # "exception" \/ tickA.kind # "ok" \/ infoA.kind # "ok"
                    THEN FinishOpen(<<req, tickA, infoA>>, e, early)
                    ELSE \E infoA2 \in InfoAnswers, script \in OpenScripts :
                      LET pre == OpenTradeRoute(e, req, v, tickA, infoA, infoA2)
                      IN  FinishOpen(<<req, tickA, infoA, infoA2, script>>, e,
                                 IF pre.res.kind # "normalized" THEN pre
                                 ELSE OpenTradeRest(pre, req, tickA, infoA2, script))

\* The client as an operation finds it, and the native answers it will get.
Before(a) == <<[initialized |-> initialized, connected |-> connected], a>>

\* ensure_initialized with the event of its return appended to the calls.
EnsureWith(st, a) ==
    LET r == EnsureInitialized(st, config, a)
    IN  [r EXCEPT !.calls = Append(@, IF r.ok THEN "ensure_initialized:ok"
                                              ELSE "ensure_initialized:failed")]

\* GET /api/v1/pending-orders after its ensure_initialized returned e.
GetPendingOrdersRoute(e) ==
    IF ~e.ok THEN Run(e.calls, <<>>, Listing(FALSE, "connection_failed", <<>>))
    \* mt5_client.get_pending_orders() raises AttributeError, which the route
    \* catches; the class has no such method and no other case exists
    ELSE CASE ~HasMethod("get_pending_orders") ->
                Run(e.calls, <<>>, Listing(FALSE, "exception", <<>>))

DoGetPendingOrders ==
    /\ Serving
    /\ UNCHANGED <<phase, flowVars, emitVars, callVars>>
    /\ \E a \in NativeAnswers :
        LET e == EnsureWith(Client, a)
        IN  Finish("get_pending_orders", Before(a), e, GetPendingOrdersRoute(e))

(***************************************************************************)
(* The order-flow accumulator.  Times are seconds on the host's local      *)
(* clock; volumes of the computed metrics are kept doubled (the code       *)
(* splits a tick's volume in halves).                                      *)
(***************************************************************************)
LookbackSeconds == 60
MinTicks == 5

ClockStep == 30   \* the clock is observed every ClockStep seconds
MaxNow == 90      \* the clock stops here
MaxTicks == 5     \* no tick is added when the buffers hold this many
UtcAhead == 3600  \* datetime.utcnow() - datetime.now() of a host west of UTC

Buffer(buffers, symbol) == IF symbol \in DOMAIN buffers THEN buffers[symbol] ELSE <<>>

\* MUTANT: one test of the head instead of the loop.
Evict_Once(buffer, cutoff_time) ==
    IF buffer # <<>> /\ Head(buffer).time < cutoff_time THEN Tail(buffer) ELSE buffer

\* while buffer and buffer[0].time < cutoff_time: popleft()
RECURSIVE Evict(_, _)
Evict(buffer, cutoff_time) ==
    IF buffer # <<>> /\ Head(buffer).time < cutoff_time
      THEN Evict(Tail(buffer), cutoff_time)
      ELSE buffer

\* add_tick that drops every stale tick of the buffer, wherever it stands.
AddTick_Filter(buffers, symbol, bid, ask, volume, time) ==
    LET tick == [time |-> time, bid |-> bid, ask |-> ask, volume |-> volume]
        appended == Append(Buffer(buffers, symbol), tick)
    IN  [s \in DOMAIN buffers \cup {symbol} |->
            IF s = symbol
              THEN SelectSeq(appended, LAMBDA x : x.time >= time - LookbackSeconds)
              ELSE buffers[s]]

\* OrderFlowAccumulator.add_tick
AddTick(buffers, symbol, bid, ask, volume, time) ==
    LET tick == [time |-> time, bid |-> bid, ask |-> ask, volume |-> volume]
        appended == Append(Buffer(buffers, symbol), tick)
    IN  [s \in DOMAIN buffers \cup {symbol} |->
            IF s = symbol THEN Evict(appended, time - LookbackSeconds) ELSE buffers[s]]

\* curr_tick.volume or 1
VolumeOr1(tick) == IF tick.volume = 0 THEN 1 ELSE tick.volume

RECURSIVE SumVolumes(_)
SumVolumes(ticks) ==
    IF ticks = <<>> THEN 0 ELSE VolumeOr1(Head(ticks)) + SumVolumes(Tail(ticks))

\* The loop over consecutive ticks: twice the bid and ask volumes.
RECURSIVE Pressure(_, _)
Pressure(ticks, i) ==
    IF i > Len(ticks) THEN [bid2 |-> 0, ask2 |-> 0]
    ELSE LET rest == Pressure(ticks, i + 1)
             prev_mid2 == ticks[i - 1].bid + ticks[i - 1].ask
             curr_mid2 == ticks[i].bid + ticks[i].ask
             v == VolumeOr1(ticks[i])
         IN  IF curr_mid2 > prev_mid2 THEN [rest EXCEPT !.ask2 = @ + 2 * v]
             ELSE IF curr_mid2 < prev_mid2 THEN [rest EXCEPT !.bid2 = @ + 2 * v]
             ELSE [bid2 |-> rest.bid2 + v, ask2 |-> rest.ask2 + v]

\* The insufficient-data answer of compute_order_flow.
NoFlow == [kind |-> "none"]

\* OrderFlowAccumulator.compute_order_flow(symbol) at local time t.
ComputeOrderFlow(buffers, symbol, t) ==
    IF symbol \notin DOMAIN buffers THEN NoFlow
    ELSE LET ticks == buffers[symbol]
             cutoff_time == t - LookbackSeconds
             recent_ticks == SelectSeq(ticks, LAMBDA x : x.time >= cutoff_time)
             n == Len(recent_ticks)
             moved == Pressure(recent_ticks, 2)
             \* no pair of ticks: half the average volume on each side
             flow == IF moved.bid2 = 0 /\ moved.ask2 = 0
                       THEN [bid2 |-> SumVolumes(recent_ticks) \div n,
                             ask2 |-> SumVolumes(recent_ticks) \div n]
                       ELSE moved
             large == SelectSeq(recent_ticks, LAMBDA x :
                         x.volume # 0
                         /\ x.volume * n >= SumVolumes(recent_ticks) * LargeOrderMultiplier)
         IN  IF Len(ticks) < MinTicks THEN NoFlow
             ELSE IF n = 0 THEN NoFlow
             ELSE [kind |-> "metrics",
                   tick_count |-> n,
                   bid_volume2 |-> flow.bid2,
                   ask_volume2 |-> flow.ask2,
                   delta_sign |-> IF flow.ask2 > flow.bid2 THEN "buying_pressure"
                                  ELSE IF flow.ask2 < flow.bid2 THEN "selling_pressure"
                                  ELSE "neutral",
                   large_orders |-> [i \in 1..Len(large) |-> large[i].volume]]

\* The neutral answer of the order-flow route: it has no error field.
NeutralFlow ==
    [success |-> TRUE, kind |-> "neutral", bid_volume2 |-> 0, ask_volume2 |-> 0,
     delta_sign |-> "neutral", imbalance_buy_pct |-> 50, imbalance_sell_pct |-> 50,
     large_orders |-> <<>>, error |-> FALSE]

\* The request of the price and order-flow routes of the model.
FlowSymbol == "XAUUSD"

\* What ensure_initialized leaves, with only the event of its return kept.
EnsureResults ==
    {[e EXCEPT !.calls = <<e.calls[Len(e.calls)]>>] : e \in EnsureOutcomes}

\* validate_symbol, as far as the flow depends on it: the terminal lists the
\* symbol under the requested name, or under its first alias, or under no
\* name, or a native call raised.
FlowNames == {FlowSymbol, "GOLD"}
FlowValidations ==
    {[valid |-> v.valid, actual |-> v.actual, msg |-> v.msg] :
        v \in {w \in ValidateOutcomes(FlowSymbol) : w.valid => w.actual \in FlowNames}}

\* The ticks held, over all buffers.
TotalTicks(buffers) ==
    Len(Buffer(buffers, FlowSymbol)) + Len(Buffer(buffers, "GOLD"))

\* symbol_info_tick of the flow: raises, None, or a quote whose time field is
\* the host's time or empty.
FlowTicks ==
    {Raised, Nothing}
        \cup {[kind |-> "ok", bid |-> q.bid, ask |-> q.ask, volume |-> 0, time |-> tm] :
                q \in {a \in TickAnswers : a.kind = "ok"}, tm \in {0, now}}

\* The number of ticks a step removed from the front of symbol's buffer.
Evicted(before, after, symbol) ==
    Len(Buffer(before, symbol)) + 1 - Len(Buffer(after, symbol))

\* A flow operation returns.
FinishFlow(op, inp, e, res, buffers) ==
    /\ Finish(op, inp, e, Run(e.calls, <<>>, res))
    /\ tick_buffers' = buffers
    /\ UNCHANGED <<phase, now, utc_offset, emitVars, callVars>>

\* GET /api/v1/price/{symbol}: MT5Client.get_price, then add_tick under the
\* requested name at datetime.now().
DoGetPrice ==
    /\ Serving
    /\ \E e \in EnsureResults :
        IF ~e.ok
          THEN FinishFlow("get_price", <<FlowSymbol>>, e,
                          HttpError(400, "connection_failed"), tick_buffers)
          ELSE \E v \in FlowValidations :
            IF ~v.valid
              THEN FinishFlow("get_price", <<FlowSymbol>>, e,
                              HttpError(400, "invalid_symbol"), tick_buffers)
              ELSE \E tick \in FlowTicks :
                IF tick.kind # "ok"
                  THEN FinishFlow("get_price", <<FlowSymbol, tick>>, e,
                                  HttpError(400, IF tick.kind = "none" THEN "no_tick"
                                                                       ELSE "exception"),
                                  tick_buffers)
                  ELSE /\ TotalTicks(tick_buffers) < MaxTicks
                       /\ LET added == AddTick(tick_buffers, FlowSymbol,
                                               tick.bid, tick.ask, 1, now)
                          IN  FinishFlow("get_price", <<FlowSymbol, tick>>, e,
                                         [success |-> TRUE, kind |-> "price",
                                          resolved_symbol |-> v.actual,
                                          bid |-> tick.bid, ask |-> tick.ask,
                                          evicted |-> Evicted(tick_buffers, added, FlowSymbol)],
                                         added)

\* GET /api/v1/order-flow/{symbol}
DoGetOrderFlow ==
    /\ Serving
    /\ \E e \in EnsureResults :
        IF ~e.ok
          THEN FinishFlow("get_order_flow", <<FlowSymbol>>, e,
                          HttpError(502, "connection_failed"), tick_buffers)
          ELSE \E v \in FlowValidations :
            IF ~v.valid
              THEN FinishFlow("get_order_flow", <<FlowSymbol>>, e,
                              IF v.msg = "error" THEN HttpError(400, "validation_failed")
                                                 ELSE HttpError(404, "invalid_symbol"),
                              tick_buffers)
              ELSE \E tick \in FlowTicks :
                /\ tick.kind = "ok" => TotalTicks(tick_buffers) < MaxTicks
                /\ LET volume == IF tick.volume # 0 THEN tick.volume ELSE 1
                       tick_time == IF tick.time # 0 THEN tick.time ELSE now + utc_offset
                       added == IF tick.kind = "ok"
                                  THEN AddTick(tick_buffers, v.actual, tick.bid, tick.ask,
                                               volume, tick_time)
                                  ELSE tick_buffers
                       order_flow == ComputeOrderFlow(added, v.actual, now)
                   IN  FinishFlow("get_order_flow", <<v.actual, tick>>, e,
                                  IF order_flow = NoFlow THEN NeutralFlow
                                  ELSE [success |-> TRUE, error |-> FALSE] @@ order_flow,
                                  added)

\* Time passes between two requests.
Tick ==
    /\ Serving
    /\ now + ClockStep <= MaxNow
    /\ now' = now + ClockStep
    /\ UNCHANGED <<initialized, connected, config, last, helper, phase,
                   utc_offset, tick_buffers, emitVars, callVars>>


\* mt5.positions_get(): raises, None with last_error telling success or an
\* error, or the open positions.
OpenPositionsAnswers ==
    {Raised, [kind |-> "none", res_ok |-> TRUE], [kind |-> "none", res_ok |-> FALSE],
     [kind |-> "list", positions |-> <<>>]}
        \cup {[kind |-> "list", positions |-> <<p>>] : p \in Positions}

\* The position dict MT5Client.get_open_positions builds.
PositionDict(pos) ==
    [direction |-> pos.type, volume |-> pos.volume, open_price |-> pos.price_open,
     sl |-> IF pos.sl > 0 THEN Some(pos.sl) ELSE None,
     tp |-> IF pos.tp > 0 THEN Some(pos.tp) ELSE None]

\* MT5Client.get_open_positions, entered with what its ensure_initialized
\* returned.
GetOpenPositions(e, posA) ==
    IF ~e.ok THEN Run(e.calls, <<>>, Listing(FALSE, "connection", <<>>))
    ELSE LET c1 == Append(e.calls, "positions_get")
         IN  IF posA.kind = "raise" THEN Run(c1, <<>>, Listing(FALSE, "exception", <<>>))
             ELSE IF posA.kind = "none"
               THEN Run(Append(c1, "last_error"), <<>>,
                        IF posA.res_ok THEN Listing(TRUE, "ok", <<>>)
                        ELSE Listing(FALSE, "positions_failed", <<>>))
             ELSE Run(c1, <<>>,
                      Listing(TRUE, "ok", [i \in 1..Len(posA.positions) |->
                                              PositionDict(posA.positions[i])]))

\* GET /api/v1/open-positions: the route's own ensure_initialized, then the
\* client's.
DoGetOpenPositions ==
    /\ Serving
    /\ UNCHANGED <<phase, flowVars, emitVars, callVars>>
    /\ \E e1 \in EnsureOutcomes :
        IF ~e1.ok
          THEN Finish("get_open_positions", <<>>, e1,
                      Run(e1.calls, <<>>, HttpError(502, "connection_failed")))
          ELSE \E e2 \in EnsureOutcomesFrom(e1) :
            IF ~e2.ok
              THEN Finish("get_open_positions", <<>>, e2, GetOpenPositions(e2, Raised))
              ELSE \E posA \in OpenPositionsAnswers :
                Finish("get_open_positions", <<posA>>, e2, GetOpenPositions(e2, posA))

\* POST /api/v1/trades/cancel: mt5_client.cancel_order(ticket) raises
\* AttributeError, the class has no such method, and the route has no handler.
DoCancelOrder ==
    /\ Serving
    /\ ~HasMethod("cancel_order")
    /\ UNCHANGED <<phase, flowVars, emitVars, callVars>>
    /\ Finish("cancel_order", <<>>, Client, Run(<<>>, <<>>, Escaped("AttributeError")))


(***************************************************************************)
(* Calls of ensure_initialized that overlap.  Each call advances by one    *)
(* read or write of a flag of the client, or one native call, at a time;   *)
(* `callers` holds where each call stands and `session` whether the        *)
(* terminal session is open.  The routes are coroutines that do not yield  *)
(* inside the client, so the runs in which one call ends before the next   *)
(* starts are among these.                                                 *)
(***************************************************************************)
NumRequests == 2
Requests == 1..NumRequests

\* A call at pc; cont is where shutdown() returns to, ret what the call
\* returned, direct whether it went to initialize() without probing, shut
\* whether its mt5.shutdown() closed the session.
Caller(pc) == [pc |-> pc, cont |-> "none", ret |-> "none", direct |-> FALSE, shut |-> FALSE]

At(t, pc) == t \in DOMAIN callers /\ callers[t].pc = pc

HasReturned(t) == At(t, "done")

CallStep(t, changes) ==
    /\ callers' = [callers EXCEPT ![t] = changes @@ callers[t]]
    /\ UNCHANGED <<config, last, helper, phase, flowVars, emitVars>>

\* ensure_initialized that trusts the flags: no account_info probe.
EnsureBranch_Trusting(is_initialized, is_connected) ==
    IF is_initialized /\ is_connected THEN "return_true" ELSE "initialize"

\* if self._initialized and self._connected: probe, else initialize().
EnsureBranch(is_initialized, is_connected) ==
    IF is_initialized /\ is_connected THEN "probe" ELSE "initialize"

\* ensure_initialized reads self._initialized.
ReadInitialized ==
    \E t \in Requests :
        /\ At(t, "ensure")
        /\ IF initialized
             THEN CallStep(t, [pc |-> "ensure_connected"])
             ELSE CallStep(t, [pc |-> EnsureBranch(FALSE, FALSE), direct |-> TRUE])
        /\ UNCHANGED <<initialized, connected, session>>

\* ... and self._connected.
ReadConnected ==
    \E t \in Requests :
        /\ At(t, "ensure_connected")
        /\ LET branch == EnsureBranch(TRUE, connected)
           IN  IF branch = "return_true"
                 THEN CallStep(t, [pc |-> "done", ret |-> TRUE])
                 ELSE CallStep(t, [pc |-> branch, direct |-> ~connected])
        /\ UNCHANGED <<initialized, connected, session>>

\* mt5.account_info(): the account only of an open session; None or an
\* exception lead to initialize().
Probe ==
    \E t \in Requests :
        /\ At(t, "probe")
        /\ \E answer \in (IF session THEN {"account"} ELSE {}) \cup {"none", "raise"} :
             IF answer = "account"
               THEN CallStep(t, [pc |-> "done", ret |-> TRUE])
               ELSE CallStep(t, [pc |-> "initialize"])
        /\ UNCHANGED <<initialized, connected, session>>

\* initialize(): if self._initialized: self.shutdown()
EnterInitialize ==
    \E t \in Requests :
        /\ At(t, "initialize")
        /\ IF initialized
             THEN CallStep(t, [pc |-> "shutdown", cont |-> "mt5_initialize"])
             ELSE CallStep(t, [pc |-> "mt5_initialize"])
        /\ UNCHANGED <<initialized, connected, session>>

\* shutdown(): if self._initialized:
ShutdownCheck ==
    \E t \in Requests :
        /\ At(t, "shutdown")
        /\ CallStep(t, [pc |-> IF initialized THEN "mt5_shutdown" ELSE callers[t].cont])
        /\ UNCHANGED <<initialized, connected, session>>

\* mt5.shutdown(): the session is closed; if it raises, the flags are left
\* as they are and the session may or may not be closed.
NativeShutdown ==
    \E t \in Requests :
        /\ At(t, "mt5_shutdown")
        /\ \/ /\ session' = FALSE
              /\ CallStep(t, [pc |-> "reset_initialized", shut |-> session])
           \/ /\ session' \in {session, FALSE}
              /\ CallStep(t, [pc |-> callers[t].cont])
        /\ UNCHANGED <<initialized, connected>>

\* self._initialized = False
ResetInitialized ==
    \E t \in Requests :
        /\ At(t, "reset_initialized")
        /\ initialized' = FALSE
        /\ CallStep(t, [pc |-> "reset_connected"])
        /\ UNCHANGED <<connected, session>>

\* self._connected = False, and shutdown() returns.
ResetConnected ==
    \E t \in Requests :
        /\ At(t, "reset_connected")
        /\ connected' = FALSE
        /\ CallStep(t, [pc |-> callers[t].cont])
        /\ UNCHANGED <<initialized, session>>

\* mt5.initialize(): True opens the session; False or an exception end
\* initialize() with a failure.
NativeInitialize ==
    \E t \in Requests :
        /\ At(t, "mt5_initialize")
        /\ \/ /\ session' = TRUE
              /\ CallStep(t, [pc |-> "set_initialized"])
           \/ /\ session' \in {session, FALSE}
              /\ CallStep(t, [pc |-> "done", ret |-> FALSE])
        /\ UNCHANGED <<initialized, connected>>

\* self._initialized = True; if self.config.validate(): login
SetInitialized ==
    \E t \in Requests :
        /\ At(t, "set_initialized")
        /\ initialized' = TRUE
        /\ CallStep(t, [pc |-> IF config.creds THEN "login" ELSE "set_connected"])
        /\ UNCHANGED <<connected, session>>

\* _login(): mt5.login authorizes on an open session only; refused or
\* raised, initialize() shuts down and returns the failure.
Login ==
    \E t \in Requests :
        /\ At(t, "login")
        /\ \E authorized \in (IF session THEN {TRUE} ELSE {}) \cup {FALSE} :
             IF authorized
               THEN CallStep(t, [pc |-> "set_connected"])
               ELSE CallStep(t, [pc |-> "shutdown", cont |-> "return_false"])
        /\ UNCHANGED <<initialized, connected, session>>

\* return False, login_result[1]
ReturnFalse ==
    \E t \in Requests :
        /\ At(t, "return_false")
        /\ CallStep(t, [pc |-> "done", ret |-> FALSE])
        /\ UNCHANGED <<initialized, connected, session>>

\* self._connected = True; return True, "MT5 initialized successfully"
SetConnected ==
    \E t \in Requests :
        /\ At(t, "set_connected")
        /\ connected' = TRUE
        /\ CallStep(t, [pc |-> "done", ret |-> TRUE])
        /\ UNCHANGED <<initialized, session>>

\* Two requests call ensure_initialized while the connection is down: the
\* client never initialized, or marked connected with the session lost.
InitCalls ==
    /\ initialized \in BOOLEAN
    /\ connected = initialized
    /\ config \in {NoConfig, [NoConfig EXCEPT !.creds = TRUE]}
    /\ last = NoOp
    /\ helper = NoHelper
    /\ phase = "serving"
    /\ now = 0
    /\ utc_offset = 0
    /\ tick_buffers = <<>>
    /\ emissions = <<>>
    /\ callers = [t \in Requests |-> Caller("ensure")]
    /\ session = FALSE

NextCalls ==
    \/ ReadInitialized
    \/ ReadConnected
    \/ Probe
    \/ EnterInitialize
    \/ ShutdownCheck
    \/ NativeShutdown
    \/ ResetInitialized
    \/ ResetConnected
    \/ NativeInitialize
    \/ SetInitialized
    \/ Login
    \/ ReturnFalse
    \/ SetConnected

SpecCalls == InitCalls /\ [][NextCalls]_vars


\* The response is delivered; the service waits for the next request.
Respond ==
    /\ last # NoOp
    /\ last' = NoOp
    /\ UNCHANGED <<initialized, connected, config, helper, phase, flowVars, emitVars, callVars>>

Next ==
    \/ DoInitialize
    \/ DoShutdown
    \/ DoOpenTrade
    \/ DoModifyTrade
    \/ DoPartialClose
    \/ DoCloseTrade
    \/ DoGetPendingOrders
    \/ DoGetOpenPositions
    \/ DoCancelOrder
    \/ Respond

Spec == Init /\ [][Next]_vars

\* The price and order-flow routes of a service that needs no login, on a host
\* in the UTC zone or west of it.
InitFlow == InitWith({NoConfig}, {0, UtcAhead})

NextFlow ==
    \/ DoInitialize
    \/ DoShutdown
    \/ Tick
    \/ DoGetPrice
    \/ DoGetOrderFlow
    \/ Respond

SpecFlow == InitFlow /\ [][NextFlow]_vars

\* The service with a webhook URL and no login, serving modify requests: the
\* one route that creates emission tasks (open_trade and partial_close_trade
\* never succeed).
InitEmit == InitWith({[NoConfig EXCEPT !.webhook = TRUE]}, {0})

NextEmit ==
    \/ DoInitialize
    \/ DoModifyTrade
    \/ EmitPost
    \/ EmitWake
    \/ EmitCollect
    \/ Respond

SpecEmit == InitEmit /\ [][NextEmit]_vars

(***************************************************************************)
(* C3.  _normalize_volume either rejects or returns a volume inside the    *)
(* broker's [min, max] that is an integer multiple of step, and a request  *)
(* below min is rejected, never raised to min.                             *)
(***************************************************************************)
EffMin(info) == OrDefault(info.volume_min, DefaultVolumeMin)
EffMax(info) == OrDefault(info.volume_max, DefaultVolumeMax)
EffStep(info) == OrDefault(info.volume_step, DefaultVolumeStep)

C3_NormalizeInRangeOnGrid ==
    helper.fn = "normalize_volume" =>
        /\ helper.ret.err = "none" =>
              /\ EffMin(helper.info) <= helper.ret.vol
              /\ helper.ret.vol <= EffMax(helper.info)
              /\ helper.ret.vol % EffStep(helper.info) = 0
        /\ helper.n < EffMin(helper.info) * helper.d => helper.ret.err # "none"

(***************************************************************************)
(* C4.  _adjust_stop_loss_take_profit never returns a stop on the wrong    *)
(* side of entry: for a buy a returned stop-loss is strictly below entry   *)
(* and a returned take-profit strictly above, for a sell the reverse; a    *)
(* requested stop on the wrong side of entry, or equal to it, comes back   *)
(* absent.                                                                 *)
(***************************************************************************)
StrictlyBelow(entry, stop) == IsNone(stop) \/ Val(stop) < entry
StrictlyAbove(entry, stop) == IsNone(stop) \/ Val(stop) > entry
NotBelow(entry, stop) == ~IsNone(stop) /\ Val(stop) >= entry
NotAbove(entry, stop) == ~IsNone(stop) /\ Val(stop) <= entry

C4_StopsOnRightSide ==
    helper.fn = "adjust_stops" =>
        IF helper.direction = "buy"
          THEN /\ StrictlyBelow(helper.entry, helper.ret.sl)
               /\ StrictlyAbove(helper.entry, helper.ret.tp)
               /\ NotBelow(helper.entry, helper.sl) => IsNone(helper.ret.sl)
               /\ NotAbove(helper.entry, helper.tp) => IsNone(helper.ret.tp)
          ELSE /\ StrictlyAbove(helper.entry, helper.ret.sl)
               /\ StrictlyBelow(helper.entry, helper.ret.tp)
               /\ NotAbove(helper.entry, helper.sl) => IsNone(helper.ret.sl)
               /\ NotBelow(helper.entry, helper.tp) => IsNone(helper.ret.tp)

\* A sell whose requested stop-loss is below entry (dropped) and whose requested
\* take-profit is below entry but nearer than the minimum distance (kept, moved).
C4_Witness ==
    /\ helper.fn = "adjust_stops"
    /\ helper.direction = "sell"
    /\ MinStopDistance(helper.info) > 1
    /\ ~IsNone(helper.sl) /\ Val(helper.sl) > 0 /\ Val(helper.sl) < helper.entry
    /\ IsNone(helper.ret.sl)
    /\ ~IsNone(helper.tp) /\ Val(helper.tp) = helper.entry - 1
    /\ ~IsNone(helper.ret.tp) /\ Val(helper.ret.tp) < helper.entry

(***************************************************************************)
(* C5.  A correctly-sided requested stop (a positive price) nearer to      *)
(* entry than the minimum stop distance is returned at exactly entry       *)
(* minus/plus that distance; one at or beyond the distance is returned     *)
(* unchanged.                                                              *)
(***************************************************************************)
PushedBelow(entry, requested, dist, returned) ==
    (~IsNone(requested) /\ Val(requested) > 0 /\ Val(requested) < entry) =>
        returned = IF entry - Val(requested) < dist THEN Some(entry - dist) ELSE requested

PushedAbove(entry, requested, dist, returned) ==
    (~IsNone(requested) /\ Val(requested) > entry) =>
        returned = IF Val(requested) - entry < dist THEN Some(entry + dist) ELSE requested

C5_NearStopsPushedToMinDistance ==
    helper.fn = "adjust_stops" =>
        LET dist == helper.info.trade_stops_level * helper.info.point
        IN  IF helper.direction = "buy"
              THEN /\ PushedBelow(helper.entry, helper.sl, dist, helper.ret.sl)
                   /\ PushedAbove(helper.entry, helper.tp, dist, helper.ret.tp)
              ELSE /\ PushedAbove(helper.entry, helper.sl, dist, helper.ret.sl)
                   /\ PushedBelow(helper.entry, helper.tp, dist, helper.ret.tp)

\* A buy whose stop-loss is one step below entry with a minimum distance of 4
\* (moved to entry - 4) and whose take-profit is already 6 away (unchanged).
C5_Witness ==
    /\ helper.fn = "adjust_stops"
    /\ helper.direction = "buy"
    /\ helper.info.trade_stops_level * helper.info.point = 4
    /\ helper.sl = Some(helper.entry - 1)
    /\ helper.ret.sl = Some(helper.entry - 4)
    /\ helper.tp = Some(helper.entry + 6)
    /\ helper.ret.tp = helper.tp

(***************************************************************************)
(* C2.  Every order_send of a trading operation comes after                *)
(* ensure_initialized returned success in that operation; when             *)
(* ensure_initialized fails the operation returns a failure, looks up no   *)
(* position and submits no order.                                          *)
(***************************************************************************)
TradingOps == {"open_trade", "modify_trade", "partial_close_trade", "close_trade"}

Made(call) == \E i \in 1..Len(last.calls) : last.calls[i] = call

\* C2: order_send only after ensure_initialized succeeded; a failed
\* ensure_initialized means a failure, no positions_get and no order_send.
C2_OrderSendOnlyAfterEnsure ==
    (last # NoOp /\ last.op \in TradingOps) =>
        /\ \A i \in 1..Len(last.calls) :
              last.calls[i] = "order_send" =>
                  \E j \in 1..(i - 1) : last.calls[j] = "ensure_initialized:ok"
        /\ Len(last.sent) > 0 => Made("order_send")
        /\ Made("ensure_initialized:failed") =>
              /\ ~last.res.success
              /\ ~Made("positions_get")
              /\ ~Made("order_send")
              /\ last.sent = <<>>

C2_Witness ==
    /\ last # NoOp
    /\ last.op = "close_trade"
    /\ Made("order_send")
    /\ last.res.success

\* The other half of C2's case: an operation whose ensure_initialized failed.
C2_WitnessFailed ==
    /\ last # NoOp
    /\ last.op \in TradingOps
    /\ Made("ensure_initialized:failed")

(***************************************************************************)
(* The runs of open_trade that got as far as the volume normalization:     *)
(* connected, symbol valid, quote and symbol information at hand, and the  *)
(* order kind and entry price accepted.  `last.inp` is then the request,   *)
(* the quote, the two answers of symbol_info and the broker's answers.     *)
(***************************************************************************)
OpenReachedVolume ==
    /\ last # NoOp
    /\ last.op = "open_trade"
    /\ Len(last.inp) = 5
    /\ last.inp[4].kind = "ok"

(***************************************************************************)
(* C6.  A market order rejected with 10016 is followed by exactly one more *)
(* order_send, the same request with sl and tp cleared to 0; the result is *)
(* a success if that retry is accepted and a failure otherwise.            *)
(***************************************************************************)
\* C6: with a broker that answers the first market order with 10016, exactly
\* two requests are sent, the second the first with sl = tp = 0, and the
\* result is a success exactly when the second is accepted.
C6_InvalidStopsRetriedOnce ==
    (/\ OpenReachedVolume
     /\ last.inp[1].order_kind = "market"
     /\ last.inp[5][1].code = TRADE_RETCODE_INVALID_STOPS) =>
        /\ Len(last.sent) = 2
        /\ last.sent[2] = [last.sent[1] EXCEPT !.sl = 0, !.tp = 0]
        /\ last.res.success = (last.inp[5][2].code = TRADE_RETCODE_DONE)

(***************************************************************************)
(* C7.  When the first submission is rejected with 10016 and the retry     *)
(* without stops is accepted, the result is a success that carries a flag  *)
(* saying that the stops were cleared.                                     *)
(***************************************************************************)
\* C7: a retry without stops that the broker accepts gives a success whose
\* result carries the flag of the stop-clearing retry.
C7_RetrySuccessCarriesFlag ==
    (/\ OpenReachedVolume
     /\ last.inp[1].order_kind = "market"
     /\ last.inp[5][1].code = TRADE_RETCODE_INVALID_STOPS
     /\ last.inp[5][2].code = TRADE_RETCODE_DONE) =>
        /\ last.res.success
        /\ "retry_without_stops" \in DOMAIN last.res
        /\ last.res.retry_without_stops

(***************************************************************************)
(* C8.  A pending order whose entry price is not sane against the quote is *)
(* rejected with the directional validation error, and nothing is sent.    *)
(***************************************************************************)
\* The claim's four cases, against the quote the operation read.
C8_NotSane(req, tick) ==
    \/ req.direction = "buy" /\ req.order_kind = "limit" /\ Val(req.entry_price) >= tick.ask
    \/ req.direction = "buy" /\ req.order_kind = "stop" /\ Val(req.entry_price) <= tick.ask
    \/ req.direction = "sell" /\ req.order_kind = "limit" /\ Val(req.entry_price) <= tick.bid
    \/ req.direction = "sell" /\ req.order_kind = "stop" /\ Val(req.entry_price) >= tick.bid

\* An open_trade that read the quote and the symbol information for a
\* pending order.
C8_PendingChecked ==
    /\ last # NoOp
    /\ last.op = "open_trade"
    /\ Len(last.inp) >= 3
    /\ last.inp[1].order_kind \in {"limit", "stop"}
    /\ last.inp[2].kind = "ok"
    /\ last.inp[3].kind = "ok"

\* C8: a pending order with an entry price on the wrong side of the quote is
\* refused with the directional error and no order_send is made.
C8_InsanePendingRejected ==
    (C8_PendingChecked /\ C8_NotSane(last.inp[1], last.inp[2])) =>
        /\ last.res = HttpError(400, "invalid_pending_price")
        /\ ~Made("order_send")
        /\ last.sent = <<>>

\* A buy-limit at the ask, refused.
C8_Witness ==
    /\ C8_PendingChecked
    /\ last.inp[1].direction = "buy"
    /\ last.inp[1].order_kind = "limit"
    /\ Val(last.inp[1].entry_price) = last.inp[2].ask
    /\ last.res = HttpError(400, "invalid_pending_price")

(***************************************************************************)
(* C9.  A market order without stop-loss and take-profit is submitted      *)
(* naked (sl = 0, tp = 0) and an accepted one is reported as a success.    *)
(***************************************************************************)
\* Failures that the environment, not the request, accounts for.
EnvironmentFailures == {"connection", "symbol_not_found", "no_tick", "no_symbol_info"}

\* C9: an open request for a market order without stops either fails for the
\* environment's sake or is handed to order_send with sl = 0 and tp = 0.
C9_NakedMarketOrderSubmitted ==
    (/\ last # NoOp
     /\ last.op = "open_trade"
     /\ last.inp[1].order_kind = "market"
     /\ IsNone(last.inp[1].stop_loss)
     /\ IsNone(last.inp[1].take_profit)) =>
        \/ last.res.kind \in EnvironmentFailures
        \/ /\ Len(last.sent) >= 1
           /\ last.sent[1].sl = 0
           /\ last.sent[1].tp = 0

(***************************************************************************)
(* C10.  partial_close_trade sends a partial closing order only for a      *)
(* normalized volume below the position's; a normalized volume that        *)
(* reaches the position's volume is closed by close_trade instead.         *)
(***************************************************************************)
\* A partial close that found its position and the symbol's constraints.
C10_Normalizable ==
    /\ last # NoOp
    /\ last.op = "partial_close_trade"
    /\ Len(last.inp) = 3
    /\ last.inp[2].kind = "found"
    /\ last.inp[3].kind = "ok"

C10_Normalized ==
    NormalizeVolume(last.inp[2].pos.volume * last.inp[1], 100, last.inp[3].info)

\* C10: every partial closing order is for less than the position's volume,
\* and a volume that normalizes to the position's volume or more is handed
\* to close_trade (which starts with its own ensure_initialized).
C10_FullVolumeRedirected ==
    C10_Normalizable =>
        /\ \A i \in 1..Len(last.sent) :
              last.sent[i].what = "partial_close" =>
                  last.sent[i].volume < last.inp[2].pos.volume
        /\ (C10_Normalized.err = "none"
              /\ C10_Normalized.vol >= last.inp[2].pos.volume) =>
              Cardinality({i \in 1..Len(last.calls) :
                  last.calls[i] \in {"ensure_initialized:ok",
                                     "ensure_initialized:failed"}}) = 2


(***************************************************************************)
(* C11.  When the client believes it is connected and the account probe    *)
(* answers, ensure_initialized succeeds after that one native call: no     *)
(* shutdown, no initialize, no login, both flags as they were; and a       *)
(* second call right after the first behaves as the first did.             *)
(***************************************************************************)
\* The operation found both flags set.
BelievedConnected == last.inp[1].initialized /\ last.inp[1].connected

C11_Case ==
    /\ last.op = "get_pending_orders"
    /\ BelievedConnected
    /\ last.inp[2].probe = "ok"

C11_ProbeOnlyWhenConnected ==
    C11_Case =>
        /\ last.calls = <<"account_info", "ensure_initialized:ok">>
        /\ initialized /\ connected
        /\ \A a \in NativeAnswers :
              a.probe = "ok" =>
                  LET again == EnsureInitialized(Client, config, a)
                  IN  /\ again.ok
                      /\ again.calls = <<"account_info">>
                      /\ again.initialized /\ again.connected

C11_Witness == C11_Case /\ last.res.kind = "exception"

(***************************************************************************)
(* C12.  When the client believes it is connected but the probe answers    *)
(* nothing or raises, ensure_initialized shuts the handle down and runs    *)
(* the whole initialization (initialize, then login exactly when           *)
(* credentials are configured), and succeeds only if that succeeded.       *)
(***************************************************************************)
C12_Case ==
    /\ last.op = "get_pending_orders"
    /\ BelievedConnected
    /\ last.inp[2].probe # "ok"

\* The native initialize call the configuration and the file system select.
InitializeCall(a) ==
    IF config.path = "set" /\ a.path_exists THEN "initialize_path" ELSE "initialize_auto"

C12_StaleHandleReinitialized ==
    C12_Case =>
        LET a == last.inp[2]
            reinit_ok == a.init = "ok" /\ (config.creds => a.login = "ok")
        IN  /\ Len(last.calls) >= 3
            /\ SubSeq(last.calls, 1, 3) = <<"account_info", "shutdown", InitializeCall(a)>>
            /\ Made("login") <=> (a.init = "ok" /\ config.creds)
            /\ Made("ensure_initialized:ok") <=> reinit_ok
            /\ Made("ensure_initialized:ok") => (initialized /\ connected)

C12_Witness == C12_Case /\ Made("login") /\ Made("ensure_initialized:ok")

C12_WitnessFailed == C12_Case /\ Made("login") /\ Made("ensure_initialized:failed")

(***************************************************************************)
(* C13.  A failed initialization (native initialize rejected, login        *)
(* rejected, or an exception) returns (false, diagnostic), leaves the      *)
(* client not connected, and the next ensure_initialized initializes       *)
(* again, succeeding once the terminal answers.                            *)
(***************************************************************************)
C13_Failed ==
    \/ last.op = "initialize" /\ ~last.res.success
    \/ last.op = "get_pending_orders" /\ Made("ensure_initialized:failed")

\* Every native call of the next ensure_initialized answers.
Available(a) ==
    /\ a.probe = "ok" /\ a.shut1 = "ok" /\ a.shut2 = "ok"
    /\ a.init = "ok" /\ a.login = "ok"

C13_FailedInitializationNotFatal ==
    C13_Failed =>
        /\ ~connected
        /\ \A a \in NativeAnswers :
              LET next == EnsureInitialized(Client, config, a)
              IN  /\ \E i \in 1..Len(next.calls) :
                        next.calls[i] \in {"initialize_path", "initialize_auto"}
                  /\ Available(a) => next.ok


(***************************************************************************)
(* C14.  An add_tick whose timestamp t is not older than the last one of   *)
(* its symbol, made on a buffer in time order, leaves the buffer in time   *)
(* order and with no tick older than t minus the window: the eviction is   *)
(* part of the insert.                                                     *)
(***************************************************************************)
TimeOrdered(buffer) ==
    \A i, j \in 1..Len(buffer) : i <= j => buffer[i].time <= buffer[j].time

\* The tick the step appended.
Inserted(symbol) == tick_buffers'[symbol][Len(tick_buffers'[symbol])]

\* The step is an add_tick for symbol that keeps its timestamps non-decreasing.
MonotoneInsert(symbol) ==
    /\ Buffer(tick_buffers, symbol) # tick_buffers'[symbol]
    /\ TimeOrdered(Buffer(tick_buffers, symbol))
    /\ \A i \in 1..Len(Buffer(tick_buffers, symbol)) :
          Buffer(tick_buffers, symbol)[i].time <= Inserted(symbol).time

C14_Step ==
    \A symbol \in DOMAIN tick_buffers' :
        MonotoneInsert(symbol) =>
            /\ TimeOrdered(tick_buffers'[symbol])
            /\ \A i \in 1..Len(tick_buffers'[symbol]) :
                  tick_buffers'[symbol][i].time >= Inserted(symbol).time - LookbackSeconds

C14_BufferOrderedAndFresh == [][C14_Step]_vars

\* An insert that evicted two stale ticks at once and left an ordered buffer.
C14_Witness ==
    /\ last.op = "get_price"
    /\ last.res.success
    /\ last.res.evicted >= 2
    /\ TimeOrdered(tick_buffers[FlowSymbol])
    /\ Len(tick_buffers[FlowSymbol]) >= 1

(***************************************************************************)
(* C15.  The tick_count of compute_order_flow never exceeds the number of  *)
(* buffered ticks whose timestamp lies in [now - window, now] at the time  *)
(* of the query.                                                           *)
(***************************************************************************)
InWindow(buffer) ==
    {i \in 1..Len(buffer) : now - LookbackSeconds <= buffer[i].time /\ buffer[i].time <= now}

Computed == last.op = "get_order_flow" /\ last.res.kind = "metrics"

C15_TickCountWithinWindow ==
    Computed =>
        last.res.tick_count <= Cardinality(InWindow(tick_buffers[last.inp[1]]))

(***************************************************************************)
(* C16.  compute_order_flow computes metrics only when at least 5 ticks    *)
(* lie within the window at query time; with fewer the order-flow query    *)
(* answers the neutral-default shape, not an error.                        *)
(***************************************************************************)
\* The ticks not older than the window, whatever their distance to now.
NotStale(buffer) == {i \in 1..Len(buffer) : buffer[i].time >= now - LookbackSeconds}

\* The order-flow query reached the accumulator.
Queried == last.op = "get_order_flow" /\ last.res.success

C16_MetricsNeedFiveTicksInWindow ==
    Queried =>
        LET fresh == Cardinality(NotStale(Buffer(tick_buffers, last.inp[1])))
        IN  /\ last.res.kind = "metrics" => fresh >= MinTicks
            /\ fresh < MinTicks => last.res = NeutralFlow


(***************************************************************************)
(* C17.  An emission whose POST fails (non-200, timeout, transport error)  *)
(* is retried up to 3 times with backoff delays of 1 s, 2 s and 4 s; then  *)
(* the event is dropped and no further POST is made; a 200 ends the        *)
(* emission at once.                                                       *)
(***************************************************************************)
C17_RetriedWithBackoff ==
    \A i \in 1..Len(emissions) :
        LET task == emissions[i]
        IN  /\ task.result = "dropped" =>
                  /\ task.slept = <<1, 2, 4>>
                  /\ task.posts = 1 + RetryCount
            /\ task.result = "delivered" => task.pc = "done"
            /\ task.pc = "done" => task.result # "pending"

(***************************************************************************)
(* C18.  The response of a successful trade operation is produced when     *)
(* its emission task has made no POST yet, and no step of an emission,     *)
(* failing or not, changes the response or keeps it from being delivered.  *)
(***************************************************************************)
\* The step creates an emission task.
TaskCreated == Len(emissions') > Len(emissions)

\* The step belongs to an emission task.
EmissionStep == emissions' # emissions /\ ~TaskCreated

C18_Step ==
    /\ TaskCreated =>
          /\ last'.op = "modify_trade"
          /\ last'.res.success
          /\ emissions'[Len(emissions')].posts = 0
          /\ emissions'[Len(emissions')].result = "pending"
    /\ EmissionStep => last' = last
    /\ last # NoOp => ENABLED Respond

C18_EmissionDecoupled == [][C18_Step]_vars

\* A modify reported as a success although its event was dropped.
C18_Witness ==
    /\ last.op = "modify_trade"
    /\ last.res.success
    /\ \E i \in 1..Len(emissions) :
          emissions[i].result = "dropped" /\ emissions[i].posts = RetryCount


(***************************************************************************)
(* C19.  No public operation (open, modify, partial close, close, cancel,  *)
(* list open positions, list pending orders) lets an exception escape: it  *)
(* always returns a structured result.                                     *)
(***************************************************************************)
C19_NoExceptionEscapes ==
    last # NoOp => last.res.kind # "escaped"

(***************************************************************************)
(* C20.  A listing of open positions or pending orders that fails because  *)
(* the terminal is unavailable returns an empty list with an error text;   *)
(* it raises no error.                                                     *)
(***************************************************************************)
ListingOps == {"get_open_positions", "get_pending_orders"}

C20_AggregatesDegrade ==
    (last.op \in ListingOps /\ ~last.res.success) =>
        /\ "http" \notin DOMAIN last.res
        /\ last.res.kind # "escaped"
        /\ last.res.items = <<>>
        /\ last.res.error

(***************************************************************************)
(* C21.  A failed open-trade request is answered with HTTP 500 when the    *)
(* connection could not be established and with HTTP 400 when the request  *)
(* was refused as invalid: unknown symbol, missing entry price, entry      *)
(* price on the wrong side of the market, or a volume that normalization   *)
(* rejects.                                                                *)
(***************************************************************************)
ValidationFailures == {"symbol_not_found", "entry_price_required", "invalid_pending_price"}

\* An open-trade request that got as far as the volume step with a volume
\* that _normalize_volume rejects.
VolumeRefused ==
    /\ OpenReachedVolume
    /\ NormalizeVolume(last.inp[1].lot_size, 1, last.inp[4].info).err # "none"

C21_WitnessValidation ==
    /\ last # NoOp /\ last.op = "open_trade"
    /\ last.res.kind = "symbol_not_found" /\ last.res.http = 400

C21_WitnessVolume == VolumeRefused /\ ~last.res.success /\ last.res.http = 400


(***************************************************************************)
(* C22.  Cancelling a pending order by ticket fetches the live order,      *)
(* fails with a not-found error when there is none, and otherwise submits  *)
(* a cancellation request and returns a structured success or failure.     *)
(***************************************************************************)
\* C22: a served cancel request has asked the terminal for the order, and
\* ends with a structured result: a success or a failed result, not an
\* exception that left the route.
C22_CancelFetchesAndAnswers ==
    (last # NoOp /\ last.op = "cancel_order") =>
        /\ Made("orders_get")
        /\ last.res.kind # "escaped"


(***************************************************************************)
(* C23.  When modify_trade succeeds, the new_sl and new_tp it returns are  *)
(* exactly the sl and tp of the modification request it submitted.         *)
(***************************************************************************)
ModifySucceeded ==
    /\ last # NoOp
    /\ last.op = "modify_trade"
    /\ last.res.success
    /\ Len(last.sent) = 1

\* A returned stop as a price: None, like 0, is the absence of a stop.
ReturnedStop(x) == IF IsNone(x) THEN 0 ELSE Val(x)

\* C23: after a successful modify_trade, the returned new_sl is the sl of
\* the request that was sent and the returned new_tp is its tp.
C23_ReturnedStopsAreSubmitted ==
    ModifySucceeded =>
        /\ ReturnedStop(last.res.new_sl) = last.sent[1].sl
        /\ ReturnedStop(last.res.new_tp) = last.sent[1].tp

(***************************************************************************)
(* C24.  modify_trade with stop_loss omitted submits the position's        *)
(* current stop-loss, and with take_profit omitted the position's current  *)
(* take-profit.                                                            *)
(***************************************************************************)
\* C24: a modification request sent for a call without stop_loss carries
\* the sl the position had, and one sent for a call without take_profit
\* carries the tp the position had.  last.inp is the pair of requested
\* stops followed by the answer of positions_get.
C24_OmittedStopKept ==
    (last # NoOp /\ last.op = "modify_trade" /\ Len(last.sent) = 1) =>
        /\ IsNone(last.inp[1][1]) => last.sent[1].sl = last.inp[2].pos.sl
        /\ IsNone(last.inp[1][2]) => last.sent[1].tp = last.inp[2].pos.tp


(***************************************************************************)
(* C27.  A market order rejected with 10030 goes on to the next filling    *)
(* mode, and when all advertised modes were rejected every mode of RETURN, *)
(* IOC, FOK not attempted so far is tried before the operation gives up.   *)
(***************************************************************************)
\* An open request that reached the volume step with a volume that
\* _normalize_volume accepts.
VolumeAccepted ==
    /\ OpenReachedVolume
    /\ NormalizeVolume(last.inp[1].lot_size, 1, last.inp[4].info).err = "none"

\* C27: a market order whose every submission the broker rejects with 10030
\* has been sent with each of the three filling modes, the advertised ones
\* first, when the operation gives up.
C27_EveryFillingModeTried ==
    (/\ VolumeAccepted
     /\ last.inp[1].order_kind = "market"
     /\ \A i \in 1..Len(last.inp[5]) : last.inp[5][i].code = TRADE_RETCODE_INVALID_FILL) =>
        /\ ~last.res.success
        /\ {last.sent[i].type_filling : i \in 1..Len(last.sent)}
              = {ORDER_FILLING_RETURN, ORDER_FILLING_IOC, ORDER_FILLING_FOK}
        /\ LET advertised == GetFillingModes(InfoOpt(last.inp[4]))
           IN  \A i \in 1..Len(advertised) : last.sent[i].type_filling = advertised[i]

(***************************************************************************)
(* C28.  A pending order rejected with 10016 is resubmitted exactly once,  *)
(* with both stops cleared, and fails if the retry is rejected too; it is  *)
(* never submitted a third time.                                           *)
(***************************************************************************)
\* C28: a pending order whose first submission the broker rejects with 10016
\* has been sent exactly twice, the second time as the first request with
\* sl = tp = 0, and succeeds exactly when the broker accepts the second.
C28_PendingRetriedOnceWithoutStops ==
    (/\ VolumeAccepted
     /\ last.inp[1].order_kind \in {"limit", "stop"}
     /\ last.inp[5][1].code = TRADE_RETCODE_INVALID_STOPS) =>
        /\ Len(last.sent) = 2
        /\ last.sent[2] = [last.sent[1] EXCEPT !.sl = 0, !.tp = 0]
        /\ last.res.success = (last.inp[5][2].code = TRADE_RETCODE_DONE)


(***************************************************************************)
(* C29.  When volume normalization rejects the requested volume, below the *)
(* broker's minimum or more than 10% above its maximum, open_trade aborts  *)
(* with a volume error and sends no order.                                 *)
(***************************************************************************)
VolumeFailures == {"below_min", "above_max", "rounded_below_min"}

\* C29: an open request that reached the volume step with a volume that
\* _normalize_volume rejects fails with that rejection as its error, and
\* no order_send is made.
C29_RejectedVolumeAborts ==
    VolumeRefused =>
        /\ ~last.res.success
        /\ last.res.kind \in VolumeFailures
        /\ ~Made("order_send")
        /\ last.sent = <<>>


(***************************************************************************)
(* C30.  _get_filling_modes returns the modes whose bit is set in the      *)
(* broker's bitmask, in the order RETURN, IOC, FOK and without duplicates; *)
(* with no recognised bit set, or without symbol information, it returns   *)
(* all three in that order.  It never returns an empty list.               *)
(***************************************************************************)
\* mask & bit is not zero, for a bit that is a power of two.
BitSet(mask, bit) == mask % (2 * bit) >= bit

PreferenceRank(mode) ==
    CASE mode = ORDER_FILLING_RETURN -> 1
      [] mode = ORDER_FILLING_IOC -> 2
      [] mode = ORDER_FILLING_FOK -> 3

Recognised == {ORDER_FILLING_RETURN, ORDER_FILLING_IOC, ORDER_FILLING_FOK}

Advertised(symbol_info) ==
    IF IsNone(symbol_info) THEN {}
    ELSE {m \in Recognised : BitSet(Val(symbol_info).filling_mode, m)}

FillingModesCalled == helper # NoHelper /\ helper.fn = "get_filling_modes"

\* C30: the list returned is never empty and is in strictly increasing
\* preference order; its modes are the advertised ones when there are any
\* and all three otherwise.
C30_FillingModesFromBitmask ==
    FillingModesCalled =>
        LET ret == helper.ret
            adv == Advertised(helper.symbol_info)
        IN  /\ ret # <<>>
            /\ \A i \in 1..Len(ret) : ret[i] \in Recognised
            /\ \A i, j \in 1..Len(ret) :
                  i < j => PreferenceRank(ret[i]) < PreferenceRank(ret[j])
            /\ {ret[i] : i \in 1..Len(ret)} = IF adv = {} THEN Recognised ELSE adv

\* A bitmask with IOC and FOK: those two, in that order.
C30_Witness ==
    /\ FillingModesCalled
    /\ ~IsNone(helper.symbol_info)
    /\ Val(helper.symbol_info).filling_mode = 6
    /\ helper.ret = <<ORDER_FILLING_IOC, ORDER_FILLING_FOK>>

\* A bitmask without a recognised bit: all three.
C30_WitnessFallback ==
    /\ FillingModesCalled
    /\ ~IsNone(helper.symbol_info)
    /\ Val(helper.symbol_info).filling_mode \in {0, 8}
    /\ helper.ret = <<ORDER_FILLING_RETURN, ORDER_FILLING_IOC, ORDER_FILLING_FOK>>


(***************************************************************************)
(* C31.  close_trade and partial_close_trade try the advertised filling    *)
(* modes in the order RETURN, IOC, FOK, go on after 'invalid filling       *)
(* mode', and when the advertised list is exhausted try every mode not     *)
(* attempted so far before the close gives up.                             *)
(***************************************************************************)
ClosingOps == {"close_trade", "partial_close_trade"}

\* C31: a close that gave up for want of a supported filling mode, every
\* submission having been answered with 10030, has sent a closing order with
\* each of RETURN, IOC and FOK.
C31_CloseTriesEveryMode ==
    (last # NoOp /\ last.op \in ClosingOps /\ last.res.kind = "no_filling_mode") =>
        {last.sent[i].type_filling : i \in 1..Len(last.sent)} = Recognised


(***************************************************************************)
(* C32.  validate_symbol returns valid with the first candidate, in the    *)
(* order upper-case name, aliases in table order, suffix variants in list  *)
(* order, that exists and is visible or can be enabled; a hidden candidate *)
(* that cannot be enabled is skipped; with no such candidate the result is *)
(* invalid.                                                                *)
(***************************************************************************)
\* The candidates of XAUUSD in the claim's order.
GoldCandidates ==
    <<"XAUUSD", "GOLD", "XAUUSD", "XAU/USD",
      "XAUUSD.0", "XAUUSD.1", "XAUUSD.conv", "XAUUSD.raw", "XAUUSD.pro">>

\* The candidate exists and is visible, or hidden and symbol_select succeeds.
Qualifies(tbl, name) ==
    name \in DOMAIN tbl /\ tbl[name] \in {"visible", "hidden"}

ValidateCalled == helper # NoHelper /\ helper.fn = "validate_symbol"

\* C32: the result is valid with the first qualifying candidate when there
\* is one, and invalid otherwise.
C32_FirstQualifyingCandidate ==
    ValidateCalled =>
        LET hits == {i \in 1..Len(GoldCandidates) : Qualifies(helper.tbl, GoldCandidates[i])}
        IN  IF hits = {} THEN ~helper.ret.valid
            ELSE /\ helper.ret.valid
                 /\ \E i \in hits :
                      /\ \A j \in hits : i <= j
                      /\ helper.ret.actual = GoldCandidates[i]

\* The name cannot be enabled, the first alias is absent, the first suffix
\* variant is hidden and can be enabled: the suffix variant is returned.
C32_Witness ==
    /\ ValidateCalled
    /\ helper.tbl["XAUUSD"] = "locked"
    /\ helper.tbl["GOLD"] = "absent"
    /\ helper.tbl["XAU/USD"] = "absent"
    /\ helper.tbl["XAUUSD.0"] = "hidden"
    /\ helper.ret.valid
    /\ helper.ret.actual = "XAUUSD.0"

\* No candidate qualifies.
C32_WitnessInvalid ==
    /\ ValidateCalled
    /\ \A n \in ValidateNames : helper.tbl[n] \in {"absent", "locked"}
    /\ ~helper.ret.valid


(***************************************************************************)
(* C33.  An add_tick changes the buffers only by appending the new tick to *)
(* its symbol's buffer and removing a prefix, possibly empty, from the     *)
(* front of that buffer; the tick added is retained and the buffers of the *)
(* other symbols are unchanged, also with timestamps out of order.         *)
(***************************************************************************)
\* new is old with one tick appended and the first k ticks removed, the
\* appended tick not among them.
AppendedAndTrimmed(old, new) ==
    /\ new # <<>>
    /\ \E k \in 0..Len(old) :
          new = SubSeq(Append(old, new[Len(new)]), k + 1, Len(old) + 1)

C33_Step ==
    tick_buffers' # tick_buffers =>
        /\ DOMAIN tick_buffers \subseteq DOMAIN tick_buffers'
        /\ \E symbol \in DOMAIN tick_buffers' :
              /\ AppendedAndTrimmed(Buffer(tick_buffers, symbol), tick_buffers'[symbol])
              /\ \A other \in DOMAIN tick_buffers' \ {symbol} :
                    /\ other \in DOMAIN tick_buffers
                    /\ tick_buffers'[other] = tick_buffers[other]

\* C33: every step that changes the buffers appends one tick to one buffer,
\* removes only from the front of that buffer, and leaves the others alone.
C33_EvictionOnlyFromFront == [][C33_Step]_vars

\* A tick was added behind a later one: the buffer is out of order, and the
\* second buffer is there.
C33_Witness ==
    /\ last # NoOp
    /\ last.op = "get_price"
    /\ last.res.success
    /\ ~TimeOrdered(tick_buffers[FlowSymbol])
    /\ "GOLD" \in DOMAIN tick_buffers


(***************************************************************************)
(* C34.  A tick that the price route ingested for a requested symbol is    *)
(* in the buffer that a later order-flow query for the same requested      *)
(* symbol reads: both routes key the accumulator by the same name, also    *)
(* when the broker's name for the symbol differs from the requested one.   *)
(***************************************************************************)
\* The tick a price request just filed: the last one of the buffer under the
\* requested name, last.inp[1].
PriceTick == tick_buffers[last.inp[1]][Len(tick_buffers[last.inp[1]])]

\* The buffer an order-flow query for the same requested symbol reads: the
\* one under the name validate_symbol resolves the request to.
FlowQueryBuffer == Buffer(tick_buffers, last.res.resolved_symbol)

\* C34: the tick filed by a price request is in the buffer that an order-flow
\* query for the same requested symbol reads.
C34_PriceTicksReachFlowQuery ==
    (last # NoOp /\ last.op = "get_price" /\ last.res.success) =>
        \E j \in 1..Len(FlowQueryBuffer) : FlowQueryBuffer[j] = PriceTick

(***************************************************************************)
(* C35.  Overlapping reinitializations are safe: however the steps of two  *)
(* requests that call ensure_initialized with the connection down are      *)
(* interleaved, once both calls have returned success the client is        *)
(* initialized and connected and the terminal session is open.             *)
(***************************************************************************)
AllSucceeded == \A t \in Requests : HasReturned(t) /\ callers[t].ret = TRUE

\* C35: when every call has returned success, both flags are set and the
\* session is open.
C35_ConcurrentReinitSafe ==
    AllSucceeded => initialized /\ connected /\ session

\* Both calls went to initialize() without probing and one of them shut
\* down the session the other had opened: a redundant reinitialization.
C35_Witness ==
    /\ AllSucceeded
    /\ \A t \in Requests : callers[t].direct
    /\ \E t \in Requests : callers[t].shut



(***************************************************************************)
(* C39: after any sequence of initialize, ensure_initialized, shutdown and *)
(* trading operations, whatever the native layer answered (failed login,   *)
(* raised exceptions included), the connected flag implies the initialized *)
(* flag: the client is never left connected and uninitialized.             *)
(***************************************************************************)
C39_ConnectedImpliesInitialized == connected => initialized

\* An operation whose ensure_initialized failed and left the client marked
\* connected: the shutdown of the reinitialization raised, so the flags stayed.
C39_Witness ==
    /\ last # NoOp
    /\ Made("ensure_initialized:failed")
    /\ Made("shutdown")
    /\ connected
    /\ initialized

\* An operation whose reinitialization failed at login and reset both flags.
C39_WitnessLoginFailed ==
    /\ last # NoOp
    /\ Made("ensure_initialized:failed")
    /\ Made("login")
    /\ ~connected
    /\ ~initialized


(***************************************************************************)
(* C40: with the multiplier of 20 and non-negative tick volumes,           *)
(* compute_order_flow lists no large order when the window holds 20 ticks  *)
(* or fewer; a tick can be listed only in a window of at least 21 ticks.   *)
(***************************************************************************)
LargeOrdersCalled == helper.fn = "large_orders"

C40_SmallWindowsFlagNothing ==
    (LargeOrdersCalled /\ Len(helper.volumes) <= LargeOrderMultiplier)
        => helper.ret = <<>>

=============================================================================
